---- MODULE Spec2Model ----
(***************************************************************************)
(* Model of the polygon overlay engine (snap-rounded Bentley-Ottmann       *)
(* sweep, fill-rule selection, overlap merging, result reconstruction)     *)
(* and of the DE-9IM relation byte.                                        *)
(*                                                                         *)
(* Coordinates are integers: one unit is the resolution at which computed  *)
(* points are stored, and the snap grid has a spacing of GridEps units.    *)
(***************************************************************************)
EXTENDS Integers, Sequences, FiniteSets, TLC

VARIABLES
    probe,   \* input of the pure function under evaluation (a record)
    out,     \* its output, or NoOut while it has not been evaluated
    sw       \* state of one overlay call (a record, see SweepInit)

vars == <<probe, out, sw>>

NoOut == [none |-> TRUE]
Idle == [pc |-> "idle"]

(***************************************************************************)
(* Bounds of the model.                                                    *)
(***************************************************************************)
\* winding counts of the probed segment range over -MaxWind..MaxWind
MaxWind == 2

(***************************************************************************)
(* Path operations and fill rules.                                         *)
(***************************************************************************)
opSettle == "Settle"
opAND == "AND"
opOR == "OR"
opNOT == "NOT"
opXOR == "XOR"
opDIV == "DIV"
pathOp == {opSettle, opAND, opOR, opNOT, opXOR, opDIV}

\* the pathOp -1, none of the operations, that relate hands on to
\* computeSweepFields
opNone == "-1"

NonZero == "NonZero"
EvenOdd == "EvenOdd"
FillRule == {NonZero, EvenOdd}

\* FillRule.Fills: NonZero fills iff the count is not zero, EvenOdd iff it is odd
Fills(fillRule, windings) ==
    IF fillRule = NonZero THEN windings # 0 ELSE windings % 2 # 0

(***************************************************************************)
(* SweepPoint.InResult                                                     *)
(***************************************************************************)
\* InResult without the exchange of the counts for a clipping segment
InResultNoSwap(s, op, fillRule) ==
    LET lowerWindings == s.windings
        lowerOtherWindings == s.otherWindings
        upperWindings == s.windings + s.selfWindings
        upperOtherWindings == s.otherWindings + s.otherSelfWindings
        fl == Fills(fillRule, lowerWindings)
        fu == Fills(fillRule, upperWindings)
        flo == Fills(fillRule, lowerOtherWindings)
        fuo == Fills(fillRule, upperOtherWindings)
    IN  IF s.open
        THEN CASE op \in {opSettle, opOR, opDIV} -> 1
               [] op = opAND -> IF flo \/ fuo THEN 1 ELSE 0
               [] op \in {opNOT, opXOR} -> IF ~flo \/ ~fuo THEN 1 ELSE 0
        ELSE IF op = opDIV
             THEN IF fl /\ fu THEN 2 ELSE IF fl \/ fu THEN 1 ELSE 0
             ELSE LET belowFills ==
                          CASE op = opSettle -> fl
                            [] op = opAND -> fl /\ flo
                            [] op = opOR -> fl \/ flo
                            [] op = opNOT -> fl /\ ~flo
                            [] op = opXOR -> fl # flo
                      aboveFills ==
                          CASE op = opSettle -> fu
                            [] op = opAND -> fu /\ fuo
                            [] op = opOR -> fu \/ fuo
                            [] op = opNOT -> fu /\ ~fuo
                            [] op = opXOR -> fu # fuo
                  IN  IF belowFills # aboveFills THEN 1 ELSE 0

\* InResult where a segment of an open contour is always kept
InResultOpenKept(s, op, fillRule) ==
    IF s.open THEN 1
    ELSE InResultNoSwap(
             IF s.clipping
             THEN [s EXCEPT !.windings = s.otherWindings,
                            !.otherWindings = s.windings,
                            !.selfWindings = s.otherSelfWindings,
                            !.otherSelfWindings = s.selfWindings]
             ELSE s, op, fillRule)

InResult(s, op, fillRule) ==
    LET lw0 == s.windings
        low0 == s.otherWindings
        uw0 == s.windings + s.selfWindings
        uow0 == s.otherWindings + s.otherSelfWindings
        \* a clipping segment's own counts are the other counts of the subject
        lowerWindings == IF s.clipping THEN low0 ELSE lw0
        lowerOtherWindings == IF s.clipping THEN lw0 ELSE low0
        upperWindings == IF s.clipping THEN uow0 ELSE uw0
        upperOtherWindings == IF s.clipping THEN uw0 ELSE uow0
    IN  IF s.open
        THEN \* handle open paths on the subject
             CASE op \in {opSettle, opOR, opDIV} -> 1
               [] op = opAND ->
                    IF Fills(fillRule, lowerOtherWindings)
                       \/ Fills(fillRule, upperOtherWindings) THEN 1 ELSE 0
               [] op \in {opNOT, opXOR} ->
                    IF ~Fills(fillRule, lowerOtherWindings)
                       \/ ~Fills(fillRule, upperOtherWindings) THEN 1 ELSE 0
               [] OTHER -> 0
        ELSE IF op = opDIV
             THEN LET belowFills == Fills(fillRule, lowerWindings)
                      aboveFills == Fills(fillRule, upperWindings)
                  IN  IF belowFills /\ aboveFills THEN 2
                      ELSE IF belowFills \/ aboveFills THEN 1 ELSE 0
             ELSE LET belowFills ==
                          CASE op = opSettle -> Fills(fillRule, lowerWindings)
                            [] op = opAND ->
                                 Fills(fillRule, lowerWindings)
                                 /\ Fills(fillRule, lowerOtherWindings)
                            [] op = opOR ->
                                 Fills(fillRule, lowerWindings)
                                 \/ Fills(fillRule, lowerOtherWindings)
                            [] op = opNOT ->
                                 Fills(fillRule, lowerWindings)
                                 /\ ~Fills(fillRule, lowerOtherWindings)
                            [] op = opXOR ->
                                 Fills(fillRule, lowerWindings)
                                 # Fills(fillRule, lowerOtherWindings)
                            [] OTHER -> FALSE
                      aboveFills ==
                          CASE op = opSettle -> Fills(fillRule, upperWindings)
                            [] op = opAND ->
                                 Fills(fillRule, upperWindings)
                                 /\ Fills(fillRule, upperOtherWindings)
                            [] op = opOR ->
                                 Fills(fillRule, upperWindings)
                                 \/ Fills(fillRule, upperOtherWindings)
                            [] op = opNOT ->
                                 Fills(fillRule, upperWindings)
                                 /\ ~Fills(fillRule, upperOtherWindings)
                            [] op = opXOR ->
                                 Fills(fillRule, upperWindings)
                                 # Fills(fillRule, upperOtherWindings)
                            [] OTHER -> FALSE
                  IN  \* only keep edge if the filling changes between both sides
                      IF belowFills # aboveFills THEN 1 ELSE 0

(***************************************************************************)
(* Specification of InResult as a function of a segment's fields.          *)
(***************************************************************************)
WindRange == (0 - MaxWind)..MaxWind

InResultInputs ==
    [windings : WindRange, otherWindings : WindRange,
     selfWindings : WindRange, otherSelfWindings : WindRange,
     clipping : BOOLEAN, open : BOOLEAN, op : pathOp, fillRule : FillRule]

InitInResult ==
    /\ probe \in InResultInputs
    /\ out = NoOut
    /\ sw = Idle

EvalInResult ==
    /\ out = NoOut
    /\ "op" \in DOMAIN probe
    /\ out' = [inResult |-> InResult(probe, probe.op, probe.fillRule)]
    /\ UNCHANGED <<probe, sw>>

NextInResult == EvalInResult

SpecInResult == InitInResult /\ [][NextInResult]_vars

(***************************************************************************)
(* Relation: the DE-9IM byte and its predicates.                           *)
(***************************************************************************)
relII == 1     \* 0x01 interior(p) intersects interior(q)
relIB == 2     \* 0x02 interior(p) intersects boundary(q)
relIE == 4     \* 0x04 interior(p) intersects exterior(q)
relBI == 8     \* 0x08 boundary(p) intersects interior(q)
relBB == 16    \* 0x10 boundary(p) intersects boundary(q)
relBE == 32    \* 0x20 boundary(p) intersects exterior(q)
relEI == 64    \* 0x40 exterior(p) intersects interior(q)
relEB == 128   \* 0x80 exterior(p) intersects boundary(q)

Relation == 0..255

\* the bitwise and of two bytes (Go's & on Relation)
RECURSIVE BitAnd(_, _)
BitAnd(a, b) ==
    IF a = 0 \/ b = 0 THEN 0
    ELSE (a % 2) * (b % 2) + 2 * BitAnd(a \div 2, b \div 2)

\* the bitwise or of two bytes (Go's | on Relation)
RECURSIVE BitOr(_, _)
BitOr(a, b) ==
    IF a = 0 THEN b
    ELSE IF b = 0 THEN a
    ELSE (IF a % 2 = 1 \/ b % 2 = 1 THEN 1 ELSE 0)
         + 2 * BitOr(a \div 2, b \div 2)

Disjoint(rel) == BitAnd(rel, 27) = 0                           \* 0x1B

\* Intersects with relII left out of the mask
IntersectsNoII(rel) == BitAnd(rel, 26) # 0

Intersects(rel) == BitAnd(rel, 27) # 0                         \* 0x1B

Equals(rel) == BitAnd(rel, 229) = 1                            \* 0xE5

Touches(rel) == BitAnd(rel, 1) = 0 /\ BitAnd(rel, 26) # 0      \* 0x01, 0x1A

\* Contains as DE-9IM Contains (the variant the code has commented out)
ContainsStrict(rel) == BitAnd(rel, 193) = 1                    \* 0xC1

Contains(rel) == BitAnd(rel, 27) # 0 /\ BitAnd(rel, 192) = 0   \* 0x1B, 0xC0

Within(rel) == BitAnd(rel, 27) # 0 /\ BitAnd(rel, 36) = 0      \* 0x1B, 0x24

\* Overlaps that only asks for a common interior point
OverlapsInterior(rel) == BitAnd(rel, 1) = 1

Overlaps(rel) == BitAnd(rel, 69) = 69                          \* 0x45

InitRelation ==
    /\ probe \in [rel : Relation]
    /\ out = NoOut
    /\ sw = Idle

EvalRelation ==
    /\ out = NoOut
    /\ "rel" \in DOMAIN probe
    /\ out' = [Disjoint |-> Disjoint(probe.rel),
               Intersects |-> Intersects(probe.rel),
               Equals |-> Equals(probe.rel),
               Touches |-> Touches(probe.rel),
               Contains |-> Contains(probe.rel),
               Within |-> Within(probe.rel),
               Overlaps |-> Overlaps(probe.rel)]
    /\ UNCHANGED <<probe, sw>>

NextRelation == EvalRelation

SpecRelation == InitRelation /\ [][NextRelation]_vars

(***************************************************************************)
(* Points and sweep points.  A Point is a record [X, Y] of integers.  The  *)
(* sweep points (endpoints of segments) of one call live in the sequence   *)
(* pts and refer to each other by index: 0 is the nil pointer.             *)
(***************************************************************************)
\* BentleyOttmannEpsilon, the spacing of the snap grid, in units
GridEps == 4

\* Path.Settle, as the final state of its call: bentleyOttmann settles on
\* their own the operands that lie apart (defined with the driver below)
RECURSIVE SettleRun(_, _)

Pt(x, y) == [X |-> x, Y |-> y]

Sign(v) == IF v < 0 THEN 0 - 1 ELSE IF v > 0 THEN 1 ELSE 0
Abs(v) == IF v < 0 THEN 0 - v ELSE v
Min(a, b) == IF a < b THEN a ELSE b
Max(a, b) == IF a < b THEN b ELSE a

\* v / d rounded to the nearest integer, halves away from zero (math.Round)
RoundDiv(v, d) ==
    LET n == IF d < 0 THEN 0 - v ELSE v
        m == Abs(d)
    IN  IF n >= 0 THEN (2 * n + m) \div (2 * m)
        ELSE 0 - ((2 * (0 - n) + m) \div (2 * m))

\* snap(val, a) = round(val / a) * a
snap(val, a) == RoundDiv(val, a) * a

\* Point.Gridsnap
Gridsnap(p, a) == Pt(snap(p.X, a), snap(p.Y, a))

\* the zero value of SweepPoint
ZeroSweepPoint ==
    [X |-> 0, Y |-> 0, other |-> 0, segment |-> 0, node |-> 0,
     windings |-> 0, otherWindings |-> 0, selfWindings |-> 0,
     otherSelfWindings |-> 0, prev |-> 0, square |-> 0, resultWindings |-> 0,
     clipping |-> FALSE, open |-> FALSE, end |-> FALSE, left |-> FALSE,
     vertical |-> FALSE, increasing |-> FALSE, overlapped |-> FALSE,
     inResult |-> 0, index |-> 0, pooled |-> 0]

PointOf(s) == Pt(s.X, s.Y)

\* The comparison of two reals of which one is s.InterpolateY(x), the y of
\* the line through s and s.other at x.  It is computed exactly; on a
\* vertical segment the division by zero gives NaN (coordinates are not
\* negative), and every comparison with NaN is false.
\* InterpCmp(pts, s, x, y) is the sign of s.InterpolateY(x) - y.
\* The result is -1, 0 or 1, and 2 for NaN.
InterpCmp(pts, s, x, y) ==
    LET a == pts[s]
        o == pts[a.other]
        dx == o.X - a.X
        d == (x - a.X) * (o.Y - a.Y) - (y - a.Y) * dx
    IN  IF dx = 0 THEN 2
        ELSE IF dx > 0 THEN Sign(d) ELSE 0 - Sign(d)

\* compareOverlapsV with the clipping path below the subject
compareOverlapsVClippingFirst(pts, a, b) ==
    IF pts[a].clipping # pts[b].clipping
    THEN IF pts[a].clipping THEN 0 - 1 ELSE 1
    ELSE IF pts[a].segment # pts[b].segment
         THEN IF pts[a].segment < pts[b].segment THEN 0 - 1 ELSE 1
         ELSE 0

\* SweepPoint.compareOverlapsV
compareOverlapsV(pts, a, b) ==
    IF pts[a].clipping # pts[b].clipping
    THEN \* for equal segments the clipping path is virtually on top of subject
         IF pts[b].clipping THEN 0 - 1 ELSE 1
    ELSE IF pts[a].segment # pts[b].segment
         THEN IF pts[a].segment < pts[b].segment THEN 0 - 1 ELSE 1
         ELSE 0

\* a's other endpoint comes first in the direction the segments extend to
otherNearer(A, AO, BO) ==
    (A.left /\ AO.X < BO.X) \/ (~A.left /\ BO.X < AO.X)

\* tangentSign without the distinction of left and right endpoints
tangentSignLeft(A) == 1

\* the sign of compareTangentsV: segments extend to the right of a left
\* endpoint and to the left of a right endpoint
tangentSign(A) == IF A.left THEN 1 ELSE 0 - 1

\* the cases of compareTangentsV; ov is the order of overlapping segments
\* and c the side of the nearer other endpoint: the sign of b's y at a's
\* other minus its y, or of a's y at b's other minus its y
tangentOrder(A, B, AO, BO, ov, c) ==
    LET sign == tangentSign(A)
    IN  IF A.vertical
        THEN IF B.vertical
             THEN IF A.Y = B.Y THEN sign * ov
                  ELSE IF A.Y < B.Y THEN 0 - 1 ELSE 1
             ELSE 1
        ELSE IF B.vertical THEN 0 - 1
        ELSE IF AO.X = BO.X /\ AO.Y = BO.Y THEN sign * ov
        ELSE IF c = 0 THEN sign * ov
        ELSE IF otherNearer(A, AO, BO)
        THEN IF c = 1 THEN sign * (0 - 1) ELSE sign
        ELSE IF c = 0 - 1 THEN sign * (0 - 1) ELSE sign

\* SweepPoint.compareTangentsV
compareTangentsV(pts, a, b) ==
    LET AO == pts[pts[a].other]
        BO == pts[pts[b].other]
    IN  tangentOrder(pts[a], pts[b], AO, BO, compareOverlapsV(pts, a, b),
            InterpCmp(pts, IF otherNearer(pts[a], AO, BO) THEN b ELSE a,
                      IF otherNearer(pts[a], AO, BO) THEN AO.X ELSE BO.X,
                      IF otherNearer(pts[a], AO, BO) THEN AO.Y ELSE BO.Y))

\* LessH by position only
LessHPosition(pts, a, b) ==
    pts[a].X < pts[b].X \/ (pts[a].X = pts[b].X /\ pts[a].Y < pts[b].Y)

\* SweepPoint.LessH, the order of the queue
LessH(pts, a, b) ==
    LET A == pts[a]
        B == pts[b]
    IN  IF A.X # B.X THEN A.X < B.X
        ELSE IF A.Y # B.Y THEN A.Y < B.Y
        ELSE IF A.left # B.left THEN B.left
        ELSE compareTangentsV(pts, a, b) < 0

\* SweepPoint.CompareH
CompareH(pts, a, b) ==
    LET A == pts[a]
        B == pts[b]
    IN  IF A.X < B.X THEN 0 - 1
        ELSE IF B.X < A.X THEN 1
        ELSE IF A.Y < B.Y THEN 0 - 1
        ELSE IF B.Y < A.Y THEN 1
        ELSE IF ~A.left /\ B.left THEN 0 - 1
        ELSE IF A.left /\ ~B.left THEN 1
        ELSE compareTangentsV(pts, a, b)

\* the order at a.X from c, the sign of b's y at a.X minus a.Y
orderAt(pts, a, b, c) ==
    IF c = 0 THEN compareTangentsV(pts, a, b)
    ELSE IF c = 1 THEN 0 - 1
    ELSE 1

\* SweepPoint.compareV: compare vertically at a.X, with b.X < a.X
compareV(pts, a, b) == orderAt(pts, a, b, InterpCmp(pts, b, pts[a].X, pts[a].Y))

\* SweepPoint.CompareV, the order of the sweep status: a and b at one point
\* are ordered as by compareV with equal y, and for a.X < b.X the result is
\* -b.compareV(a)
CompareV(pts, a, b) ==
    IF pts[a].X = pts[b].X
    THEN orderAt(pts, a, b, Sign(pts[b].Y - pts[a].Y))
    ELSE IF pts[a].X < pts[b].X THEN 0 - compareV(pts, b, a)
    ELSE compareV(pts, a, b)

(***************************************************************************)
(* SweepEvents: the queue, a binary min-heap of sweep points under LessH.  *)
(* q is the heap array; position i of the code is element i + 1 here.      *)
(***************************************************************************)
QSwap(q, i, j) == [q EXCEPT ![i + 1] = q[j + 1], ![j + 1] = q[i + 1]]

QLess(pts, q, i, j) == LessH(pts, q[i + 1], q[j + 1])

\* SweepEvents.up
RECURSIVE up(_, _, _)
up(pts, q, j) ==
    LET i == IF j = 0 THEN 0 ELSE (j - 1) \div 2   \* parent
    IN  IF i = j \/ ~QLess(pts, q, j, i) THEN q
        ELSE up(pts, QSwap(q, i, j), i)

\* SweepEvents.down: the array and the position the element came to rest at
RECURSIVE downAt(_, _, _, _)
RECURSIVE downTo(_, _, _, _, _)
downTo(pts, q, i, n, j) ==    \* j is the smaller child of i
    IF ~QLess(pts, q, j, i) THEN [q |-> q, i |-> i]
    ELSE downAt(pts, QSwap(q, i, j), j, n)

downAt(pts, q, i, n) ==
    LET j1 == 2 * i + 1
        j2 == j1 + 1
    IN  IF n <= j1 THEN [q |-> q, i |-> i]
        ELSE downTo(pts, q, i, n,
                    IF j2 < n /\ QLess(pts, q, j2, j1) THEN j2 ELSE j1)

down(pts, q, i0, n) == downAt(pts, q, i0, n).q

\* SweepEvents.Init
RECURSIVE heapInitFrom(_, _, _)
heapInitFrom(pts, q, i) ==
    IF i < 0 THEN q ELSE heapInitFrom(pts, down(pts, q, i, Len(q)), i - 1)

QueueInit(pts, q) == heapInitFrom(pts, q, (Len(q) \div 2) - 1)

\* Push that leaves the new element at the end of the array
QueuePushNoUp(pts, q, item) == Append(q, item)

\* SweepEvents.Push
QueuePush(pts, q, item) == up(pts, Append(q, item), Len(q))

\* SweepEvents.Top
QueueTop(q) == q[1]

\* SweepEvents.Pop: the queue that is left
QueuePop(pts, q) ==
    LET n == Len(q) - 1
    IN  SubSeq(down(pts, QSwap(q, 0, n), 0, n), 1, n)

\* SweepEvents.Pop: the element that is returned
QueuePopped(pts, q) ==
    LET n == Len(q) - 1
    IN  down(pts, QSwap(q, 0, n), 0, n)[n + 1]

\* SweepEvents.Fix: the element at position i has changed
QueueFixed(pts, q, i, d) == IF i < d.i THEN d.q ELSE up(pts, d.q, i)

QueueFix(pts, q, i) == QueueFixed(pts, q, i, downAt(pts, q, i, Len(q)))

(***************************************************************************)
(* Paths.  A Path is a sequence of commands [cmd, X, Y]; the paths handed  *)
(* to the sweep are single flat sub-paths: a MoveTo, LineTos and possibly  *)
(* a final Close whose coordinates are those of the MoveTo.                *)
(***************************************************************************)
MoveToCmd == "M"
LineToCmd == "L"
CloseCmd == "z"
QuadToCmd == "Q"

Cmd(c, x, y) == [cmd |-> c, X |-> x, Y |-> y]

\* Path.Closed
Closed(p) == Len(p) > 0 /\ p[Len(p)].cmd = CloseCmd

\* Path.Empty: a path of at most one MoveTo holds no segment
PathEmpty(p) == Len(p) <= 1

\* Paths.Empty
PathsEmpty(ps) == \A i \in 1..Len(ps) : PathEmpty(ps[i])

\* The closed polygon through the points of the sequence v
RECURSIVE LineTos(_, _)
LineTos(v, i) ==
    IF i > Len(v) THEN <<>>
    ELSE <<Cmd(LineToCmd, v[i].X, v[i].Y)>> \o LineTos(v, i + 1)

Polygon(v) ==
    <<Cmd(MoveToCmd, v[1].X, v[1].Y)>> \o LineTos(v, 2)
        \o <<Cmd(CloseCmd, v[1].X, v[1].Y)>>

\* the points a path visits, the closing point of a Close left out
Vertices(p) ==
    [i \in 1..(IF Closed(p) THEN Len(p) - 1 ELSE Len(p)) |-> Pt(p[i].X, p[i].Y)]

(***************************************************************************)
(* The state of one call: sweep points (pts), queue, status, nodes and     *)
(* squares, gathered in one record so that the helpers of the sweep can    *)
(* be written as functions from state to state.                            *)
(*   status  the nodes of the sweep status from bottom to top              *)
(*   nodePt  for every node ever made, its sweep point (0 once returned)   *)
(*   free    the returned nodes that boNodePool holds (it keeps them only   *)
(*           when reuse is set: a sync.Pool may drop what is put into it)   *)
(*   pick    the node that boNodePool.Get hands out next (0: a new one)     *)
(*   popped  the position, when it was popped, of the event popped last     *)
(***************************************************************************)
NewPoint(st) == Len(st.pts) + 1

\* The values of a float64 that are no coordinates: the infinities and NaN,
\* kept apart from every coordinate of the inputs (NaN is compared with
\* finite values only, to which it is unequal)
Inf == 2 ^ 30
NaN == Inf + 1

\* math.IsNaN(v) || math.IsInf(v, 0.0)
IsNaNOrInf(v) == v = NaN \/ v = Inf \/ v = 0 - Inf

\* SweepEvents.AddPathEndpoints: add the segments of p to the queue (not yet
\* a heap); k is the index of the command, start the current point
RECURSIVE addPathFrom(_, _, _, _, _, _, _)
addPathFrom(st, p, k, start, seg, clipping, open) ==
    IF k > Len(p) \/ st.panic # "" THEN [st |-> st, seg |-> seg]
    ELSE LET c == p[k]
         IN  IF c.cmd # LineToCmd /\ c.cmd # CloseCmd
             THEN [st |-> [st EXCEPT !.panic = "non-flat paths not supported"],
                   seg |-> seg]
             ELSE IF c.cmd = CloseCmd
                     /\ (p[Len(p)].X # p[1].X \/ p[Len(p)].Y # p[1].Y)
             THEN [st |-> [st EXCEPT !.panic = "invalid close command in path"],
                   seg |-> seg]
             ELSE IF IsNaNOrInf(c.X) \/ IsNaNOrInf(c.Y)
             THEN [st |-> [st EXCEPT !.panic = "path has NaN or Inf"],
                   seg |-> seg]
             ELSE LET end == Pt(c.X, c.Y)
                  IN  IF start = end
                      THEN \* skip zero-length lineTo or close command
                           addPathFrom(st, p, k + 1, start, seg + 1,
                                       clipping, open)
                      ELSE LET vertical == start.X = end.X
                               increasing == IF vertical THEN start.Y < end.Y
                                             ELSE start.X < end.X
                               a == NewPoint(st)
                               b == a + 1
                               A == [ZeroSweepPoint EXCEPT
                                        !.X = start.X, !.Y = start.Y,
                                        !.clipping = clipping, !.open = open,
                                        !.end = open /\ k = 2,
                                        !.segment = seg + 1,
                                        !.left = increasing,
                                        !.increasing = increasing,
                                        !.vertical = vertical,
                                        !.other = b]
                               B == [ZeroSweepPoint EXCEPT
                                        !.X = end.X, !.Y = end.Y,
                                        !.clipping = clipping, !.open = open,
                                        !.end = open /\ k = Len(p),
                                        !.segment = seg + 1,
                                        !.left = ~increasing,
                                        !.increasing = increasing,
                                        !.vertical = vertical,
                                        !.other = a]
                               st2 == [st EXCEPT
                                          !.pts = st.pts \o <<A, B>>,
                                          !.queue = st.queue \o <<a, b>>]
                           IN  addPathFrom(st2, p, k + 1, end, seg + 1,
                                           clipping, open)

AddPathEndpoints(st, p, seg, clipping) ==
    IF Len(p) = 0 THEN [st |-> st, seg |-> seg]
    ELSE LET start == Pt(p[1].X, p[1].Y)
             last == p[Len(p)]
             \* start and end points coincide, consider path closed
             open == ~Closed(p) /\ ~(last.X = p[1].X /\ last.Y = p[1].Y)
         IN  IF IsNaNOrInf(start.X) \/ IsNaNOrInf(start.Y)
             THEN [st |-> [st EXCEPT !.panic = "path has NaN or Inf"],
                   seg |-> seg]
             ELSE addPathFrom(st, p, 2, start, seg, clipping, open)

\* SplitAt where the old right endpoint keeps its reference to s
SplitAtOtherKept(st, s, z) ==
    LET r == NewPoint(st)
        l == r + 1
        S == st.pts[s]
        o == S.other
        O == st.pts[o]
        R == [O EXCEPT !.X = z.X, !.Y = z.Y, !.end = FALSE, !.other = s,
                       !.pooled = 0]
        L == [S EXCEPT !.X = z.X, !.Y = z.Y, !.end = FALSE, !.other = o,
                       !.node = 0, !.pooled = 0]
    IN  [st |-> [st EXCEPT !.pts = [(st.pts \o <<R, L>>) EXCEPT
                                       ![s].other = r]],
         r |-> r, l |-> l]

\* SweepPoint.SplitAt: split the segment of s at z; the new right endpoint r
\* ends the first half, the new left endpoint l starts the second half
SplitAt(st, s, z) ==
    LET r == NewPoint(st)
        l == r + 1
        S == st.pts[s]
        o == S.other
        O == st.pts[o]
        R == [O EXCEPT !.X = z.X, !.Y = z.Y, !.end = FALSE, !.other = s,
                       !.pooled = 0]
        L == [S EXCEPT !.X = z.X, !.Y = z.Y, !.end = FALSE, !.other = o,
                       !.node = 0, !.pooled = 0]
        pts1 == st.pts \o <<R, L>>
    IN  [st |-> [st EXCEPT !.pts = [pts1 EXCEPT ![o].other = l,
                                                ![s].other = r]],
         r |-> r, l |-> l]

\* Reverse that leaves the direction as it is
ReverseNot(pts, s) == pts

\* SweepPoint.Reverse
Reverse(pts, s) ==
    LET o == pts[s].other
    IN  [pts EXCEPT ![s].left = ~pts[s].left,
                    ![o].left = pts[s].left,
                    ![s].increasing = ~pts[s].increasing,
                    ![o].increasing = ~pts[o].increasing]

(***************************************************************************)
(* The intersection primitive.  a0 precedes a1 and b0 precedes b1 in sweep *)
(* order.  It returns no point, one point (secant or tangent), or the two  *)
(* ends of the common part of overlapping segments.  The point is computed *)
(* exactly and stored at the resolution of the unit, as the nearest value  *)
(* that snaps to the same grid line as the exact one (a float64 keeps the  *)
(* side of the middle between two grid lines the point lies on).           *)
(***************************************************************************)
PerpDot(ax, ay, bx, by) == ax * by - ay * bx

\* the stored value of the coordinate n / d
StoreCoord(n, d) ==
    LET r == RoundDiv(n, d)
        g == GridEps * RoundDiv(n, d * GridEps)
    IN  IF snap(r, GridEps) = g THEN r
        ELSE IF snap(r, GridEps) > g THEN r - 1
        ELSE r + 1

PointLess(p, q) == p.X < q.X \/ (p.X = q.X /\ p.Y < q.Y)

\* the points of zs that are not an endpoint of both segments: where two
\* segments end in one point there is nothing to split
RECURSIVE notAtBothEnds(_, _, _, _, _, _)
notAtBothEnds(zs, i, a0, a1, b0, b1) ==
    IF i > Len(zs) THEN <<>>
    ELSE (IF (zs[i] = a0 \/ zs[i] = a1) /\ (zs[i] = b0 \/ zs[i] = b1)
          THEN <<>> ELSE <<zs[i]>>)
             \o notAtBothEnds(zs, i + 1, a0, a1, b0, b1)

intersectionLineLineBentleyOttmann(a0, a1, b0, b1) ==
    LET dax == a1.X - a0.X
        day == a1.Y - a0.Y
        dbx == b1.X - b0.X
        dby == b1.Y - b0.Y
        div == PerpDot(dax, day, dbx, dby)
        ex == b0.X - a0.X
        ey == b0.Y - a0.Y
        zs == IF a1.X < b0.X \/ b1.X < a0.X THEN <<>>
              ELSE IF div = 0
              THEN \* parallel
                   IF PerpDot(ex, ey, dax, day) # 0 THEN <<>>
                   ELSE LET lo == IF PointLess(a0, b0) THEN b0 ELSE a0
                            hi == IF PointLess(a1, b1) THEN a1 ELSE b1
                        IN  IF PointLess(lo, hi) THEN <<lo, hi>>
                            ELSE IF lo = hi THEN <<lo>>
                            ELSE <<>>
              ELSE LET na == PerpDot(ex, ey, dbx, dby)    \* ta = na / div
                       nb == PerpDot(ex, ey, dax, day)    \* tb = nb / div
                       inA == IF div > 0 THEN 0 <= na /\ na <= div
                              ELSE div <= na /\ na <= 0
                       inB == IF div > 0 THEN 0 <= nb /\ nb <= div
                              ELSE div <= nb /\ nb <= 0
                   IN  IF inA /\ inB
                       THEN <<Pt(StoreCoord(a0.X * div + na * dax, div),
                                 StoreCoord(a0.Y * div + na * day, div))>>
                       ELSE <<>>
    IN  notAtBothEnds(zs, 1, a0, a1, b0, b1)

\* the two halves after SweepPoint.SplitAt in splitAtIntersections: mark a
\* half that became vertical and reverse its direction if necessary
splitVertical(p1, right, left, lo, ro) ==
    IF p1[left].X = p1[lo].X
    THEN \* segment after the split is vertical
         IF p1[lo].Y < p1[left].Y
         THEN Reverse([p1 EXCEPT ![left].vertical = TRUE,
                                 ![lo].vertical = TRUE], left)
         ELSE [p1 EXCEPT ![left].vertical = TRUE, ![lo].vertical = TRUE]
    ELSE IF p1[right].X = p1[ro].X
    THEN \* segment before the split is vertical
         IF p1[right].Y < p1[ro].Y
         THEN \* reverse first segment and swap the contents of its two
              \* endpoints
              LET Swapped(w) ==
                      [w EXCEPT ![right] = [w[ro] EXCEPT !.other = ro],
                                ![ro] = [w[right] EXCEPT !.other = right]]
              IN  Swapped(Reverse([p1 EXCEPT ![right].vertical = TRUE,
                                             ![ro].vertical = TRUE], right))
         ELSE [p1 EXCEPT ![right].vertical = TRUE, ![ro].vertical = TRUE]
    ELSE p1

\* the first segment became vertical and needs reversal
reversedFirst(p1, right, left) ==
    /\ p1[left].X # p1[p1[left].other].X
    /\ p1[right].X = p1[p1[right].other].X
    /\ p1[right].Y < p1[p1[right].other].Y

\* push the new endpoints of a split segment
pushHalves(st2, p2, right, left) ==
    [st2 EXCEPT !.pts = p2,
                !.queue = QueuePush(p2, QueuePush(p2, @, right), left)]

\* the state after SweepPoint.SplitAt in splitAtIntersections; sp holds the
\* state and the new right and left endpoints
splitHalves(sp, isA) ==
    pushHalves([sp.st EXCEPT
                   !.warn = IF reversedFirst(sp.st.pts, sp.r, sp.l) /\ isA
                            THEN @ + 1 ELSE @,
                   !.panic =
                       IF /\ reversedFirst(sp.st.pts, sp.r, sp.l)
                          /\ sp.st.pts[sp.st.pts[sp.r].other].node # 0
                          /\ @ = ""
                       THEN "first segment became vertical"
                       ELSE @],
               splitVertical(sp.st.pts, sp.r, sp.l, sp.st.pts[sp.l].other,
                             sp.st.pts[sp.r].other),
               sp.r, sp.l)

\* splitAtIntersections: split the segment of s at the points zs[1..i],
\* last point first, and push the new endpoints
RECURSIVE splitAtFrom(_, _, _, _, _)
splitAtFrom(st, zs, i, s, isA) ==
    IF i < 1 THEN [st |-> st, changed |-> FALSE]
    ELSE IF zs[i] = PointOf(st.pts[s])
            \/ zs[i] = PointOf(st.pts[st.pts[s].other])
    THEN \* ignore tangent intersections at the endpoints
         splitAtFrom(st, zs, i - 1, s, isA)
    ELSE [st |-> splitAtFrom(splitHalves(SplitAt(st, s, zs[i]), isA), zs,
                             i - 1, s, isA).st,
          changed |-> TRUE]

splitAtIntersections(st, zs, s, isA) == splitAtFrom(st, zs, Len(zs), s, isA)

\* no correction
MoveToEventNot(z, event) == z

\* the correction of one intersection while a right event is processed
MoveToEvent(z, event) ==
    IF z.X < event.X THEN Pt(event.X, z.Y)
    ELSE IF z.X = event.X /\ z.Y < event.Y THEN Pt(z.X, event.Y)
    ELSE z

\* the number of intersections that were moved outside of a segment
movedOutside(zs, A, AO, B, BO) ==
    Cardinality({i \in 1..Len(zs) :
        \/ AO.X < zs[i].X \/ BO.X < zs[i].X
        \/ Max(A.Y, AO.Y) < zs[i].Y \/ Max(B.Y, BO.Y) < zs[i].Y})

\* the two calls of splitAtIntersections: their results together
bothSplit(ra, rb) == [st |-> rb.st, changed |-> ra.changed \/ rb.changed]

splitSecond(ra, zs, b) ==
    bothSplit(ra, splitAtIntersections(ra.st, zs, b, FALSE))

splitFirst(st, event, zs, a, b) ==
    splitSecond(splitAtIntersections(
                    [st EXCEPT !.warn =
                        IF event.left THEN @
                        ELSE @ + movedOutside(zs, st.pts[a],
                                     st.pts[st.pts[a].other], st.pts[b],
                                     st.pts[st.pts[b].other])],
                    zs, a, TRUE), zs, b)

\* addIntersections once the intersections zs0 are known
intersected(st, event, zs0, a, b) ==
    IF Len(zs0) = 0 THEN [st |-> st, changed |-> FALSE]
    ELSE splitFirst(st, event,
                    IF event.left THEN zs0
                    ELSE [i \in 1..Len(zs0) |-> MoveToEvent(zs0[i], event)],
                    a, b)

\* addIntersections: event is [X, Y, left]; a and b are left endpoints and a
\* is below b
addIntersections(st, event, a, b) ==
    intersected(st, event,
                intersectionLineLineBentleyOttmann(
                    PointOf(st.pts[a]), PointOf(st.pts[st.pts[a].other]),
                    PointOf(st.pts[b]), PointOf(st.pts[st.pts[b].other])),
                a, b)

(***************************************************************************)
(* SweepStatus: the ordered set of the segments that cross the sweep line, *)
(* kept as the sequence of its nodes from bottom to top.                   *)
(***************************************************************************)
\* the position of node n in the status, 0 if it is not in it
RECURSIVE PosFrom(_, _, _)
PosFrom(seq, n, i) ==
    IF i > Len(seq) THEN 0
    ELSE IF seq[i] = n THEN i
    ELSE PosFrom(seq, n, i + 1)

Pos(seq, n) == PosFrom(seq, n, 1)

\* SweepNode.Prev and SweepNode.Next (0 is nil)
NodePrev(st, n) ==
    LET i == Pos(st.status, n)
    IN  IF i <= 1 THEN 0 ELSE st.status[i - 1]

NodeNext(st, n) ==
    LET i == Pos(st.status, n)
    IN  IF i = 0 \/ i = Len(st.status) THEN 0 ELSE st.status[i + 1]

\* the sweep point of a node
NodePoint(st, n) == st.nodePt[n]

\* SweepStatus.find: the first node from the bottom that item does not lie
\* above, and the comparison with it
RECURSIVE findFrom(_, _, _)
findFrom(st, item, i) ==
    LET Found(cmp) ==
            IF cmp <= 0 \/ i = Len(st.status) THEN [i |-> i, cmp |-> cmp]
            ELSE findFrom(st, item, i + 1)
    IN  Found(CompareV(st.pts, item, NodePoint(st, st.status[i])))

\* SweepStatus.FindPrevNext
FindPrevNext(st, item) ==
    LET Around(f, n) ==
            [prev |-> IF f.cmp > 0 THEN n ELSE NodePrev(st, n),
             next |-> IF f.cmp < 0 THEN n ELSE NodeNext(st, n)]
        Found(f) == Around(f, st.status[f.i])
    IN  IF Len(st.status) = 0 THEN [prev |-> 0, next |-> 0]
        ELSE Found(findFrom(st, item, 1))

InsertAfterNot(st, n, item) == st

\* SweepStatus.InsertAfter with newNode: the new node is Len(st.nodePt) + 1
InsertAfter(st, n, item) ==
    LET new == IF st.pick \in st.free THEN st.pick ELSE Len(st.nodePt) + 1
        i == IF n = 0 THEN 0 ELSE Pos(st.status, n)
    IN  [st EXCEPT
            !.nodePt = IF new <= Len(@) THEN [@ EXCEPT ![new] = item]
                       ELSE Append(@, item),
            !.free = @ \ {new},
            !.pick = 0,
            !.pts[item].node = new,
            !.status = SubSeq(@, 1, i) \o <<new>> \o SubSeq(@, i + 1, Len(@))]

\* Remove that leaves the node field of the endpoint as it is
StatusRemoveNodeKept(st, n) ==
    [st EXCEPT
        !.status = SubSeq(@, 1, Pos(st.status, n) - 1)
                       \o SubSeq(@, Pos(st.status, n) + 1, Len(@)),
        !.nodePt[n] = 0]

\* SweepStatus.Remove with returnNode
StatusRemove(st, n) ==
    LET i == Pos(st.status, n)
    IN  [st EXCEPT
            !.status = SubSeq(@, 1, i - 1) \o SubSeq(@, i + 1, Len(@)),
            !.pts[st.nodePt[n]].node = 0,
            !.nodePt[n] = 0,
            !.free = IF st.reuse THEN @ \cup {n} ELSE @]

(***************************************************************************)
(* Tolerance squares.                                                      *)
(***************************************************************************)
\* toleranceSquares.find: index (from 0) of the square at or above (x, y)
\* and whether it exists
RECURSIVE squaresFindFrom(_, _, _, _)
squaresFindFrom(squares, x, y, i) ==
    IF i < 0 THEN [idx |-> 0, ok |-> FALSE]
    ELSE IF squares[i + 1].X < x \/ squares[i + 1].Y < y
         THEN [idx |-> i + 1, ok |-> FALSE]
    ELSE IF squares[i + 1].Y = y THEN [idx |-> i, ok |-> TRUE]
    ELSE squaresFindFrom(squares, x, y, i - 1)

squaresFind(squares, x, y) == squaresFindFrom(squares, x, y, Len(squares) - 1)

\* the squares with the event in the square at (x, y); f is the result of
\* find
squareWith(squares, f, x, y, event, refNode) ==
    IF ~f.ok
    THEN SubSeq(squares, 1, f.idx)
         \o <<[X |-> x, Y |-> y, Events |-> <<event>>, Node |-> refNode,
               Lower |-> 0, Upper |-> 0, pooled |-> FALSE]>>
         \o SubSeq(squares, f.idx + 1, Len(squares))
    ELSE [squares EXCEPT ![f.idx + 1].Node = refNode,
                         ![f.idx + 1].Events = Append(@, event)]

\* the squares around keep a removed segment as their reference
renewNodeNot(sq1, x, orig, refNode) == sq1

\* a removed segment may still be the reference of squares around
renewNode(sq1, x, orig, refNode) ==
    [i \in 1..Len(sq1) |->
        IF sq1[i].X = x /\ sq1[i].Node = orig
        THEN [sq1[i] EXCEPT !.Node = refNode]
        ELSE sq1[i]]

\* toleranceSquares.Add
squaresAdd(st, x, event, refNode) ==
    LET E == st.pts[event]
        y == snap(E.Y, GridEps)
    IN  [st EXCEPT !.squares =
            IF E.left
            THEN squareWith(@, squaresFind(@, x, y), x, y, event, refNode)
            ELSE renewNode(squareWith(@, squaresFind(@, x, y), x, y, event,
                                      refNode),
                           x, st.pts[E.other].node, refNode)]

(***************************************************************************)
(* Pass 1 of bentleyOttmann: one iteration of the loop over the events of  *)
(* the current column (BentleyOttmannLoop).                                *)
(***************************************************************************)
EventOf(st, e) == [X |-> st.pts[e].X, Y |-> st.pts[e].Y, left |-> st.pts[e].left]

\* a right event: pop it, intersect the segments that become adjacent, add
\* it to its square and remove its segment from the status
rightSquared(st2, x, event, n, prev, next) ==
    StatusRemove(squaresAdd(st2, x, event, IF prev # 0 THEN prev ELSE next),
                 n)

rightNeighbours(st1, event, n, prev, next) ==
    rightSquared(IF prev # 0 /\ next # 0
                 THEN addIntersections(st1, EventOf(st1, event),
                          NodePoint(st1, prev), NodePoint(st1, next)).st
                 ELSE st1, st1.x, event, n, prev, next)

rightPopped(st1, event, n) ==
    IF n = 0
    THEN [st1 EXCEPT !.panic = "right-endpoint not part of status"]
    ELSE IF st1.nodePt[n] = 0
    THEN [st1 EXCEPT !.panic = "other endpoint already removed"]
    ELSE rightNeighbours(st1, event, n, NodePrev(st1, n), NodeNext(st1, n))

ProcessRightEvent(st) ==
    rightPopped([st EXCEPT !.queue = QueuePop(st.pts, st.queue),
                           !.popped = PointOf(st.pts[QueueTop(st.queue)])],
                QueueTop(st.queue),
                st.pts[st.pts[QueueTop(st.queue)].other].node)

\* a left event: intersect it with the segments below and above; when it
\* is still the top of the queue pop it and insert it into the status
leftInserted(st4, event) == squaresAdd(st4, st4.x, event, st4.pts[event].node)

leftChecked(st2, event, pn) ==
    IF QueueTop(st2.queue) # event
    THEN st2   \* the queue order was changed
    ELSE leftInserted(InsertAfter(
                          [st2 EXCEPT !.queue = QueuePop(st2.pts, st2.queue),
                                      !.popped = PointOf(st2.pts[event])],
                          pn.prev, event), event)

leftAbove(st1, event, pn) ==
    leftChecked(IF pn.next # 0
                THEN addIntersections(st1, EventOf(st1, event), event,
                                      NodePoint(st1, pn.next)).st
                ELSE st1, event, pn)

leftBelow(st, event, pn) ==
    leftAbove(IF pn.prev # 0
              THEN addIntersections(st, EventOf(st, event),
                                    NodePoint(st, pn.prev), event).st
              ELSE st, event, pn)

ProcessLeftEvent(st) ==
    leftBelow(st, QueueTop(st.queue), FindPrevNext(st, QueueTop(st.queue)))

InColumn(st) ==
    Len(st.queue) > 0 /\ snap(st.pts[QueueTop(st.queue)].X, GridEps) = st.x

(***************************************************************************)
(* Pass 2: break up the segments that cross a tolerance square.            *)
(* Interpolated ordinates are rationals [n, d] with d > 0; d = 0 is NaN.   *)
(***************************************************************************)
HalfEps == GridEps \div 2

RatInt(v) == [n |-> v, d |-> 1]

\* SweepPoint.InterpolateY
InterpolateY(pts, s, x) ==
    LET a == pts[s]
        o == pts[a.other]
        dx == o.X - a.X
        num == a.Y * dx + (x - a.X) * (o.Y - a.Y)
    IN  IF dx = 0 THEN [n |-> 0, d |-> 0]
        ELSE IF dx > 0 THEN [n |-> num, d |-> dx]
        ELSE [n |-> 0 - num, d |-> 0 - dx]

RatLtInt(r, k) == r.d > 0 /\ r.n < k * r.d     \* r < k
RatLeInt(r, k) == r.d > 0 /\ r.n <= k * r.d    \* r <= k
IntLeRat(k, r) == r.d > 0 /\ k * r.d <= r.n    \* k <= r

\* SweepPoint.ToleranceEdgeY
ToleranceEdgeY(pts, s0, xLeft, xRight) ==
    LET s == IF pts[s0].left THEN s0 ELSE pts[s0].other
        S == pts[s]
        O == pts[S.other]
    IN  [y0 |-> IF S.X < xLeft THEN InterpolateY(pts, s, xLeft)
                ELSE RatInt(S.Y),
         y1 |-> IF xRight <= O.X THEN InterpolateY(pts, s, xRight)
                ELSE RatInt(O.Y)]

\* a segment lies below (above) a square with edges yBottom and yTop
EdgeBelow(e, yBottom) == RatLtInt(e.y0, yBottom) /\ RatLeInt(e.y1, yBottom)
EdgeAbove(e, yTop) == IntLeRat(yTop, e.y0) /\ IntLeRat(yTop, e.y1)

\* the state after SweepPoint.SplitAt in breakupSegment: the new endpoints
\* lie in square j, the node n of the segment passes to its second half
brokenAt(sp, event, j, n) ==
    [st |-> [sp.st EXCEPT
               !.pts = IF n # 0
                       THEN [@ EXCEPT ![sp.r].square = j, ![sp.l].square = j,
                                      ![sp.l].node = n, ![event].node = 0]
                       ELSE [@ EXCEPT ![sp.r].square = j, ![sp.l].square = j],
               !.nodePt = IF n # 0 THEN [@ EXCEPT ![n] = sp.l] ELSE @,
               !.squares[j].Events = @ \o <<sp.r, sp.l>>],
     s |-> sp.l]

\* SweepPoint.breakupSegment: break the segment of event at (x, y) unless it
\* starts or ends in that square; j is the index of the square
breakupSegment(st, event, j, x, y) ==
    LET E == st.pts[event]
        O == st.pts[E.other]
    IN  IF \/ snap(E.X, GridEps) = x /\ snap(E.Y, GridEps) = y
           \/ snap(O.X, GridEps) = x /\ snap(O.Y, GridEps) = y
        THEN [st |-> st, s |-> event]
        ELSE brokenAt(SplitAt(st, event, Pt(x, y)), event, j, E.node)

\* the search upwards from the reference node for the segments in a square
RECURSIVE findUpper(_, _, _, _, _)
findUpper(st, sq, next, x0, x1) ==
    IF next = 0 THEN sq
    ELSE LET e == ToleranceEdgeY(st.pts, NodePoint(st, next), x0, x1)
         IN  IF EdgeAbove(e, sq.Y + HalfEps) THEN sq
             ELSE IF EdgeBelow(e, sq.Y - HalfEps)
             THEN findUpper(st, [sq EXCEPT !.Node = next],
                            NodeNext(st, next), x0, x1)
             ELSE findUpper(st,
                            [sq EXCEPT !.Upper = next,
                                       !.Lower = IF @ = 0 THEN next ELSE @],
                            NodeNext(st, next), x0, x1)

\* the search downwards; the reference node ends as the node below the square
RECURSIVE findLower(_, _, _, _, _)
findLower(st, sq, prev, x0, x1) ==
    IF prev = 0 THEN [sq EXCEPT !.Node = 0]
    ELSE LET e == ToleranceEdgeY(st.pts, NodePoint(st, prev), x0, x1)
         IN  IF EdgeBelow(e, sq.Y - HalfEps) THEN [sq EXCEPT !.Node = prev]
             ELSE IF EdgeAbove(e, sq.Y + HalfEps)
             THEN findLower(st, [sq EXCEPT !.Node = prev],
                            NodePrev(st, prev), x0, x1)
             ELSE findLower(st,
                            [sq EXCEPT !.Lower = prev,
                                       !.Upper = IF @ = 0 THEN prev ELSE @],
                            NodePrev(st, prev), x0, x1)

\* the lower and upper node that cross the square, from its reference node,
\* whose segment lies below or above the square or goes through it
crossingDown(st, sq2, x0, x1, below) ==
    IF ~below THEN findLower(st, sq2, NodePrev(st, sq2.Node), x0, x1)
    ELSE sq2

crossingUp(st, sq1, x0, x1, below, above) ==
    crossingDown(st,
                 IF ~above
                 THEN findUpper(st, sq1, NodeNext(st, sq1.Node), x0, x1)
                 ELSE sq1, x0, x1, below)

crossingFrom(st, sq, x0, x1, below, above) ==
    crossingUp(st,
               IF ~below /\ ~above
               THEN [sq EXCEPT !.Lower = sq.Node, !.Upper = sq.Node]
               ELSE sq, x0, x1, below, above)

crossingEdge(st, sq, x0, x1, e) ==
    crossingFrom(st, sq, x0, x1, EdgeBelow(e, sq.Y - HalfEps),
                 EdgeAbove(e, sq.Y + HalfEps))

findCrossing(st, sq, x0, x1) ==
    IF sq.Node = 0 THEN sq
    ELSE crossingEdge(st, sq, x0, x1,
                      ToleranceEdgeY(st.pts, NodePoint(st, sq.Node), x0, x1))

\* break up the segments of the nodes from node up to the square's Upper
RECURSIVE breakupNodes(_, _, _)
breakupNodes(st, i, node) ==
    LET Broken(b) ==
            IF node = st.squares[i].Upper THEN b.st
            ELSE breakupNodes(b.st, i, NodeNext(b.st, node))
    IN  IF node = 0 \/ st.nodePt[node] = 0
        THEN [st EXCEPT !.panic = "nil node between Lower and Upper"]
        ELSE Broken(breakupSegment(st, NodePoint(st, node), i,
                                   st.squares[i].X, st.squares[i].Y))

\* the lowest square of the column, below square i, that a segment entering
\* the column at ordinate y0 passes
RECURSIVE lowestSquare(_, _, _, _, _)
lowestSquare(squares, x, y0, j, j0) ==
    IF j < 1 THEN j0
    ELSE IF squares[j].X # x \/ IntLeRat(squares[j].Y + HalfEps, y0) THEN j0
    ELSE lowestSquare(squares, x, y0, j - 1, j)

\* the highest such square above square i
RECURSIVE highestSquare(_, _, _, _)
highestSquare(squares, y0, j, j0) ==
    IF j > Len(squares) THEN j0
    ELSE IF RatLtInt(y0, squares[j].Y - HalfEps) THEN j0
    ELSE highestSquare(squares, y0, j + 1, j)

\* break up segment s in the squares from j to last, one by one
RECURSIVE breakupThrough(_, _, _, _, _)
breakupThrough(st, s, j, last, step) ==
    LET Broken(b) == breakupThrough(b.st, b.s, j + step, last, step)
    IN  IF (step = 1 /\ j > last) \/ (step = 0 - 1 /\ j < last) THEN st
        ELSE Broken(breakupSegment(st, s, j, st.squares[j].X,
                                   st.squares[j].Y))

\* a segment that ends in square i and enters the column at y0 below or
\* above the square is broken up in the squares it passes
endingFrom(st, i, s, y0, below, above) ==
    IF ~below /\ ~above THEN st
    ELSE breakupThrough(st, s,
             IF below    \* comes from below
             THEN lowestSquare(st.squares, st.squares[i].X, y0, i - 1, i)
             ELSE highestSquare(st.squares, y0, i + 1, i),
             IF below THEN i - 1 ELSE i + 1,
             IF below THEN 1 ELSE 0 - 1)

endingAt(st, i, s, y0) ==
    endingFrom(st, i, s, y0, RatLtInt(y0, st.squares[i].Y - HalfEps),
               ~RatLtInt(y0, st.squares[i].Y - HalfEps)
                   /\ IntLeRat(st.squares[i].Y + HalfEps, y0))

\* the segments that end in square i and pass through other squares
RECURSIVE breakupEnding(_, _, _, _, _, _)
breakupEnding(st, i, events, k, x0, x1) ==
    IF k > Len(events) THEN st
    ELSE IF st.pts[events[k]].left
    THEN breakupEnding(st, i, events, k + 1, x0, x1)
    ELSE breakupEnding(
             endingAt(st, i, st.pts[events[k]].other,
                      ToleranceEdgeY(st.pts, events[k], x0, x1).y0),
             i, events, k + 1, x0, x1)

\* the segments that cross square i (from Lower to Upper) and those that
\* end in it
crossingBroken(st2, i, x0, x1) ==
    IF st2.panic # "" THEN st2
    ELSE breakupEnding(st2, i, st2.squares[i].Events, 1, x0, x1)

crossingFound(st1, i, x0, x1, stale) ==
    crossingBroken(IF st1.squares[i].Lower # 0 /\ ~stale
                   THEN breakupNodes(st1, i, st1.squares[i].Lower)
                   ELSE st1, i, x0, x1)

\* the reference node of square i was removed from the status
staleNode(st, i) ==
    st.squares[i].Node # 0 /\ st.nodePt[st.squares[i].Node] = 0

\* toleranceSquares.breakupCrossingSegments, squares i.. of the column
RECURSIVE breakupCrossingFrom(_, _)
breakupCrossingFrom(st, i) ==
    LET x0 == st.x - HalfEps
        x1 == st.x + HalfEps
    IN  IF i > Len(st.squares) \/ st.panic # "" THEN st
        ELSE breakupCrossingFrom(
                 crossingFound(
                     [st EXCEPT
                         !.squares[i] =
                             IF staleNode(st, i) THEN @
                             ELSE findCrossing(st, @, x0, x1),
                         !.panic = IF staleNode(st, i)
                                   THEN "nil reference node" ELSE @],
                     i, x0, x1, staleNode(st, i)),
                 i + 1)

(***************************************************************************)
(* Pass 2, continued: snap the events of the column to the grid.           *)
(***************************************************************************)
\* put every event of a square back together with its other endpoint
RECURSIVE poolEventsAll(_, _, _)

\* boPointPool.Put: pooled counts how often the sweep point was put back
\* since it was taken from the pool
PoolPut(pts, e) == [pts EXCEPT ![e].pooled = @ + 1]

poolEventsAll(pts, events, i) ==
    IF i > Len(events) THEN pts
    ELSE poolEventsAll(PoolPut(PoolPut(pts, pts[events[i]].other), events[i]),
                       events, i + 1)

\* snap the events of square j and keep them all, the collapsed ones too
RECURSIVE snapEventsKept(_, _, _, _, _)
snapEventsKept(pts, sq, j, i, kept) ==
    IF i > Len(sq.Events) THEN [pts |-> pts, kept |-> kept]
    ELSE snapEventsKept([pts EXCEPT ![sq.Events[i]].square = j,
                                    ![sq.Events[i]].X = sq.X,
                                    ![sq.Events[i]].Y = sq.Y],
                        sq, j, i + 1, Append(kept, sq.Events[i]))

\* snap the events of square j from position i on; kept are the events that
\* stay in the square (the events of collapsed segments are removed, and put
\* back into the pool together with their left endpoint)
RECURSIVE snapEvents(_, _, _, _, _)
snapEvents(pts, sq, j, i, kept) ==
    IF i > Len(sq.Events) THEN [pts |-> pts, kept |-> kept]
    ELSE LET event == sq.Events[i]
             p1 == [pts EXCEPT ![event].square = j,
                               ![event].X = sq.X, ![event].Y = sq.Y]
             o == p1[event].other
             other == Gridsnap(PointOf(p1[o]), GridEps)
         IN  IF PointOf(p1[event]) = other
             THEN \* remove collapsed segments
                  snapEvents(IF ~p1[event].left
                             THEN PoolPut(PoolPut(p1, o), event) ELSE p1,
                             sq, j, i + 1, kept)
             ELSE LET p2 == IF p1[event].X = other.X
                            THEN \* became vertical due to snap or breakup
                                 LET v == [p1 EXCEPT ![event].vertical = TRUE,
                                                     ![o].vertical = TRUE]
                                 IN  IF ~v[event].left /\ v[event].Y < other.Y
                                     THEN Reverse(v, event) ELSE v
                            ELSE p1
                  IN  snapEvents(p2, sq, j, i + 1, Append(kept, event))

\* the events of square j are snapped: r holds the points and the events
\* that are kept
snappedSquare(st, j, r) ==
    [st EXCEPT !.pts = r.pts, !.squares[j].Events = r.kept]

RECURSIVE snapSquaresFrom(_, _)
snapSquaresFrom(st, j) ==
    IF j > Len(st.squares) THEN st
    ELSE snapSquaresFrom(
             snappedSquare(st, j,
                 snapEvents(st.pts, st.squares[j], j, 1, <<>>)),
             j + 1)

(***************************************************************************)
(* Pass 2, continued: re-sort the status and the events after snapping.    *)
(* sort.Sort and slices.SortFunc sort at most 12 elements by insertion.    *)
(***************************************************************************)
\* eventSliceV.Swap: exchange the nodes of the events at positions i and j
SwapV(st, events, i, j) ==
    LET a == events[i]
        b == events[j]
        na == st.pts[a].node
        nb == st.pts[b].node
    IN  [st |-> [st EXCEPT !.nodePt = [@ EXCEPT ![na] = b, ![nb] = a],
                           !.pts = [@ EXCEPT ![a].node = nb, ![b].node = na]],
         events |-> [events EXCEPT ![i] = b, ![j] = a]]

\* the inner loop of the insertion sort: sink the element at position j
RECURSIVE sinkV(_, _, _)
sinkV(st, events, j) ==
    IF j > 1 /\ CompareV(st.pts, events[j], events[j - 1]) < 0
    THEN sinkV(SwapV(st, events, j, j - 1).st,
               SwapV(st, events, j, j - 1).events, j - 1)
    ELSE [st |-> st, events |-> events]

\* r holds the state and the events, sorted up to position i - 1
RECURSIVE sortVFrom(_, _)
sortVFrom(r, i) ==
    IF i > Len(r.events) THEN r
    ELSE sortVFrom(sinkV(r.st, r.events, i), i + 1)

\* sort.Sort(eventSliceV(events))
SortV(st, events) == sortVFrom([st |-> st, events |-> events], 2)

RECURSIVE sinkH(_, _, _)
sinkH(pts, events, j) ==
    IF j > 1 /\ CompareH(pts, events[j], events[j - 1]) < 0
    THEN sinkH(pts, [events EXCEPT ![j] = events[j - 1],
                                   ![j - 1] = events[j]], j - 1)
    ELSE events

RECURSIVE sortHFrom(_, _, _)
sortHFrom(pts, events, i) ==
    IF i > Len(events) THEN events
    ELSE sortHFrom(pts, sinkH(pts, events, i), i + 1)

\* slices.SortFunc(square.Events, SweepPoint.CompareH)
SortH(pts, events) == sortHFrom(pts, events, 2)

\* the sweep points of the nodes from node n up to node upper
RECURSIVE nodeRange(_, _, _)
nodeRange(st, n, upper) ==
    IF n = 0 THEN <<0>>
    ELSE IF n = upper THEN <<NodePoint(st, n)>>
    ELSE <<NodePoint(st, n)>> \o nodeRange(st, NodeNext(st, n), upper)

\* push the two new endpoints of a segment split by SplitAt
pushSplit(sp) ==
    [sp.st EXCEPT !.queue = QueuePush(sp.st.pts,
                                      QueuePush(sp.st.pts, @, sp.r), sp.l)]

\* neighbours a below b in the status that compare as c: when they are out
\* of order, the one that extends further is split at the right endpoint of
\* the other
splitFurther(st, a, b, ao, bo, c) ==
    IF 0 < c /\ ao.X # bo.X
    THEN pushSplit(SplitAt(st, IF bo.X < ao.X THEN a ELSE b,
                           PointOf(IF bo.X < ao.X THEN bo ELSE ao)))
    ELSE st

\* neighbours in the square that are out of order after snapping
RECURSIVE splitUnordered(_, _, _)
splitUnordered(st, n, upper) ==
    LET a == NodePoint(st, n)
        b == NodePoint(st, NodeNext(st, n))
    IN  IF n = upper THEN st
        ELSE splitUnordered(
                 splitFurther(st, a, b, st.pts[st.pts[a].other],
                              st.pts[st.pts[b].other],
                              CompareV(st.pts, a, b)),
                 NodeNext(st, n), upper)

\* intersections between the new neighbours in the status after sorting
RECURSIVE newNeighbours(_, _, _, _, _, _)
newNeighbours(st, events, origEvents, i, centre, has) ==
    LET event == events[i]
        n == st.pts[event].node
        j == Pos(origEvents, event)
        next == NodeNext(st, n)
        moved ==
            /\ event # origEvents[i]
            /\ next # 0
            /\ (j = 1 \/ NodePoint(st, next) # origEvents[j - 1])
            /\ (j = Len(origEvents)
                \/ NodePoint(st, next) # origEvents[j + 1])
        Added(r) == newNeighbours(r.st, events, origEvents, i + 1, centre,
                                  r.changed)
    IN  IF i > Len(events) - 1 THEN [st |-> st, has |-> has]
        ELSE Added(IF moved /\ ~has
                   THEN addIntersections(st, centre, NodePoint(st, n),
                                         NodePoint(st, next))
                   ELSE [st |-> st, changed |-> has])

\* addIntersections between the segments of the nodes a and b, unless one of
\* them is nil or an intersection was found before
addNeighbours(r, centre, a, b) ==
    IF a # 0 /\ b # 0 /\ ~r.changed
    THEN addIntersections(r.st, centre, NodePoint(r.st, a),
                          NodePoint(r.st, b))
    ELSE r

\* the status above the square's Upper node after the check below its Lower
addAbove(r, centre, upper) ==
    addNeighbours(r, centre, upper, NodeNext(r.st, upper))

\* the end of the reordering of a square: enter the column loop again, or
\* sort overlapping segments again
reordered(st, has, events) ==
    IF InColumn(st) THEN [st |-> st, again |-> TRUE]
    ELSE [st |-> IF has THEN SortV(st, events).st ELSE st, again |-> FALSE]

\* the steps of the reordering of square sq after the sort, which yields the
\* state st2 and the events in their new order
reorderNew(r2, sq, events, events0) ==
    newNeighbours(r2.st, events, events0, 1,
                  [X |-> sq.X, Y |-> sq.Y, left |-> FALSE], r2.changed)

reorderAround(st2, sq, centre) ==
    addAbove(addNeighbours([st |-> st2, changed |-> FALSE], centre,
                           NodePrev(st2, sq.Lower), sq.Lower),
             centre, sq.Upper)

reorderChecked(r3, events) == reordered(r3.st, r3.has, events)

reorderSorted(sorted, sq, events0) ==
    reorderChecked(
        reorderNew(reorderAround(sorted.st, sq,
                                 [X |-> sq.X, Y |-> sq.Y, left |-> FALSE]),
                   sq, sorted.events, events0),
        sorted.events)

reorderRange(st, sq, events0) ==
    IF \E k \in 1..Len(events0) : events0[k] = 0
    THEN [st |-> [st EXCEPT !.panic = "nil node between Lower and Upper"],
          again |-> FALSE]
    ELSE reorderSorted(SortV(splitUnordered(st, sq.Lower, sq.Upper), events0),
                       sq, events0)

\* The reordering of the status in one square.  When afterwards an event of
\* this column is in the queue, the column loop is entered again (again is
\* TRUE) and the rest of the pass is abandoned.
ReorderSquare(st, j) ==
    reorderRange(st, st.squares[j],
                 nodeRange(st, st.squares[j].Lower, st.squares[j].Upper))

(***************************************************************************)
(* Pass 2, continued: winding fields and merging of overlapping segments.  *)
(***************************************************************************)
\* the first segment at or below prev that is not vertical
RECURSIVE skipVertical(_, _)
skipVertical(pts, prev) ==
    IF prev # 0 /\ pts[prev].vertical THEN skipVertical(pts, pts[prev].prev)
    ELSE prev

\* the windings from the segment prev below, where the two counts are not
\* swapped when prev belongs to the other input
WindingsAboveSame(pts, clipping, prev) ==
    IF prev = 0 THEN [windings |-> 0, otherWindings |-> 0]
    ELSE [windings |-> pts[prev].windings + pts[prev].selfWindings,
          otherWindings |-> pts[prev].otherWindings
                                + pts[prev].otherSelfWindings]

\* the windings below a segment of the given input, from the segment prev
\* below it
WindingsAbove(pts, clipping, prev) ==
    IF prev = 0 THEN [windings |-> 0, otherWindings |-> 0]
    ELSE LET P == pts[prev]
         IN  IF clipping = P.clipping
             THEN [windings |-> P.windings + P.selfWindings,
                   otherWindings |-> P.otherWindings + P.otherSelfWindings]
             ELSE [windings |-> P.otherWindings + P.otherSelfWindings,
                   otherWindings |-> P.windings + P.selfWindings]

\* the windings of the sweep point C above the segment prev, w being the
\* windings above prev
windingFields(C, prev, w) ==
    [C EXCEPT !.selfWindings = IF C.open THEN @
                               ELSE IF C.increasing THEN 1 ELSE 0 - 1,
              !.prev = prev,
              !.windings = w.windings,
              !.otherWindings = w.otherWindings]

\* the left endpoint cur becomes C1, and r is whether its segment is in the
\* result, which both endpoints keep
withInResult(pts, cur, C1, r) ==
    [pts EXCEPT ![cur] = [C1 EXCEPT !.inResult = r],
                ![C1.other].inResult = r]

\* computeSweepFields where the vertical segments below are not skipped
computeSweepFieldsNoSkip(pts, cur, prev, op, fillRule) ==
    LET C1 == windingFields(pts[cur], prev,
                            WindingsAbove(pts, pts[cur].clipping, prev))
    IN  withInResult(pts, cur, C1, InResult(C1, op, fillRule))

\* SweepPoint.computeSweepFields: cur is a left endpoint, prev the segment
\* below it (0 if none)
computeSweepFields(pts, cur, prev, op, fillRule) ==
    LET C1 == windingFields(pts[cur], prev,
                  WindingsAbove(pts, pts[cur].clipping,
                                skipVertical(pts, prev)))
    IN  withInResult(pts, cur, C1, InResult(C1, op, fillRule))

\* the loop of mergeOverlapping that stops after the first segment below s
mergeBelowOnce(pts, s, prev) ==
    IF prev = 0 THEN [pts |-> pts, prev |-> prev]
    ELSE LET S == pts[s]
             P == pts[prev]
         IN  IF \/ P.overlapped
                \/ PointOf(S) # PointOf(P)
                \/ PointOf(pts[S.other]) # PointOf(pts[P.other])
             THEN [pts |-> pts, prev |-> prev]
             ELSE LET same == S.clipping = P.clipping
                      p1 == [pts EXCEPT
                               ![s].selfWindings =
                                   @ + (IF same THEN P.selfWindings
                                        ELSE P.otherSelfWindings),
                               ![s].otherSelfWindings =
                                   @ + (IF same THEN P.otherSelfWindings
                                        ELSE P.selfWindings),
                               ![prev].windings = 0,
                               ![prev].selfWindings = 0,
                               ![prev].otherWindings = 0,
                               ![prev].otherSelfWindings = 0,
                               ![prev].inResult = 0,
                               ![prev].overlapped = TRUE]
                  IN  [pts |-> [p1 EXCEPT ![P.other].inResult = 0],
                       prev |-> P.prev]

\* the segment S above the merged segments, where its prev is left as it was
aboveMergedSamePrev(S, prev, w) ==
    [S EXCEPT !.windings = w.windings,
              !.otherWindings = w.otherWindings]

\* the loop of mergeOverlapping: add the windings of the segments below s
\* that have the same endpoints to s
RECURSIVE mergeBelow(_, _, _)
mergeBelow(pts, s, prev) ==
    IF prev = 0 THEN [pts |-> pts, prev |-> prev]
    ELSE LET S == pts[s]
             P == pts[prev]
         IN  IF \/ P.overlapped
                \/ PointOf(S) # PointOf(P)
                \/ PointOf(pts[S.other]) # PointOf(pts[P.other])
             THEN [pts |-> pts, prev |-> prev]
             ELSE LET same == S.clipping = P.clipping
                      p1 == [pts EXCEPT
                               ![s].selfWindings =
                                   @ + (IF same THEN P.selfWindings
                                        ELSE P.otherSelfWindings),
                               ![s].otherSelfWindings =
                                   @ + (IF same THEN P.otherSelfWindings
                                        ELSE P.selfWindings),
                               ![prev].windings = 0,
                               ![prev].selfWindings = 0,
                               ![prev].otherWindings = 0,
                               ![prev].otherSelfWindings = 0,
                               ![prev].inResult = 0,
                               ![prev].overlapped = TRUE]
                      p2 == [p1 EXCEPT ![P.other].inResult = 0]
                  IN  mergeBelow(p2, s, P.prev)

\* the segment S above the merged segments, w being the windings above the
\* first segment below them, prev
aboveMerged(S, prev, w) ==
    [S EXCEPT !.windings = w.windings,
              !.otherWindings = w.otherWindings,
              !.prev = prev]

\* mergeOverlapping that does not add up the windings of the merged segments
mergeOverlappingNoSum(pts, s, op, fillRule) ==
    LET m == mergeBelow(pts, s, pts[s].prev)
        S1 == aboveMerged(pts[s], m.prev,
                          WindingsAbove(m.pts, pts[s].clipping, m.prev))
    IN  IF pts[s].overlapped \/ m.prev = pts[s].prev THEN pts
        ELSE withInResult(m.pts, s, S1, InResult(S1, op, fillRule))

\* SweepPoint.mergeOverlapping: s is a left endpoint
mergeOverlapping(pts, s, op, fillRule) ==
    LET m == mergeBelow(pts, s, pts[s].prev)
        S1 == aboveMerged(m.pts[s], m.prev,
                          WindingsAbove(m.pts, pts[s].clipping, m.prev))
    IN  IF pts[s].overlapped \/ m.prev = pts[s].prev THEN pts
        ELSE withInResult(m.pts, s, S1, InResult(S1, op, fillRule))

\* the segment below the event at position i of the square for its sweep
\* fields (0 if none)
prevOfEvent(st, sq, i) ==
    LET E == st.pts[sq.Events[i]]
    IN  IF E.node = 0
        THEN \* vertical
             IF 1 < i /\ st.pts[sq.Events[i - 1]].left
             THEN \* against last left-endpoint in square
                  sq.Events[i - 1]
             ELSE \* against first segment below square
                  IF sq.Node # 0 THEN NodePoint(st, sq.Node) ELSE 0
        ELSE IF NodePrev(st, E.node) # 0
        THEN NodePoint(st, NodePrev(st, E.node)) ELSE 0

\* the sweep fields of the events of square j, in the order of its events
RECURSIVE sweepFieldsFrom(_, _, _)
sweepFieldsFrom(st, j, i) ==
    LET sq == st.squares[j]
        event == sq.Events[i]
    IN  IF i > Len(sq.Events) THEN st
        ELSE sweepFieldsFrom(
                 [st EXCEPT !.pts =
                     IF ~@[event].left
                     THEN mergeOverlapping(@, @[event].other, st.op,
                                           st.fillRule)
                     ELSE computeSweepFields(@, event,
                              prevOfEvent(st, sq, i), st.op, st.fillRule)],
                 j, i + 1)

\* sort the events of square j and compute their sweep fields
sortedFields(st, j) ==
    sweepFieldsFrom([st EXCEPT !.squares[j].Events = SortH(st.pts, @)], j, 1)

\* the loop over the squares of the column after snapping: reorder the
\* status, sort the events and compute the sweep fields
RECURSIVE finishSquaresFrom(_, _)
finishSquaresFrom(st, j) ==
    LET Reordered(r) ==
            IF r.again \/ r.st.panic # "" THEN r
            ELSE finishSquaresFrom(sortedFields(r.st, j), j + 1)
    IN  IF j > Len(st.squares) \/ st.panic # ""
        THEN [st |-> st, again |-> FALSE]
        ELSE Reordered(IF st.squares[j].Lower # 0 THEN ReorderSquare(st, j)
                       ELSE [st |-> st, again |-> FALSE])

\* the end of pass 2: the column loop is entered again, or the next column
\* starts, or the sweep is over
columnDone(st, again) ==
    IF st.panic # "" THEN [st EXCEPT !.pc = "done"]
    ELSE IF again THEN [st EXCEPT !.reentries = @ + 1]
    ELSE IF Len(st.queue) > 0
    THEN [st EXCEPT !.n = Len(st.squares) + 1,
                    !.x = snap(st.pts[QueueTop(st.queue)].X, GridEps)]
    ELSE [st EXCEPT !.pc = "build", !.status = <<>>, !.sq = 1, !.ev = 1]

\* breakupCrossingSegments and then the snapping of the column's events
brokenAndSnapped(st1, n) ==
    IF st1.panic # "" THEN st1 ELSE snapSquaresFrom(st1, n)

\* Pass 2 for the column that starts at square st.n
FinishColumn(st) ==
    LET Done(r) == columnDone(r.st, r.again)
    IN  Done(finishSquaresFrom(
                 brokenAndSnapped(breakupCrossingFrom(st, st.n), st.n),
                 st.n))

(***************************************************************************)
(* Building the resulting polygons.  A resulting Path is a sequence of     *)
(* rings (its sub-paths), a ring the sequence of the points it visits.     *)
(***************************************************************************)
\* Path.Reverse of a closed ring: from its start point backwards
ReverseRing(r) ==
    [i \in 1..Len(r) |-> IF i = 1 THEN r[1] ELSE r[Len(r) + 2 - i]]

\* Paths.Merge: all sub-paths in one Path
RECURSIVE MergePaths(_, _)
MergePaths(Rs, i) ==
    IF i > Len(Rs) THEN <<>> ELSE Rs[i] \o MergePaths(Rs, i + 1)

\* the nearest segment below that is part of a resulting ring
RECURSIVE prevInResult(_, _)
prevInResult(pts, prev) ==
    IF prev # 0 /\ pts[prev].index = 0 THEN prevInResult(pts, pts[prev].prev)
    ELSE prev

\* the next event clockwise from position i0 in nodes that is in the result
\* and of the same kind as the ring (0 if there is none); i counts downwards
RECURSIVE nextClockwise(_, _, _, _, _, _)
nextClockwise(pts, nodes, i0, i, open, fuel) ==
    LET k == IF i < 1 THEN i + Len(nodes) ELSE i
    IN  IF k = i0 \/ fuel = 0 \/ k < 1 THEN 0
        ELSE IF 0 < pts[nodes[k]].inResult /\ pts[nodes[k]].open = open
        THEN nodes[k]
        ELSE nextClockwise(pts, nodes, i0, k - 1, open, fuel - 1)

Decrement8(v) == (v + 255) % 256    \* v-- on a uint8

\* the walk has come to the event next: it is taken out of the result and
\* belongs to the ring index
visited(pts, next, index, windings, open) ==
    IF pts[next].left
    THEN [pts EXCEPT ![next].inResult = Decrement8(@),
                     ![next].index = index,
                     ![next].resultWindings =
                         IF open THEN windings ELSE windings + 1]
    ELSE [pts EXCEPT ![pts[next].other].inResult = Decrement8(@),
                     ![pts[next].other].index = index,
                     ![pts[next].other].resultWindings = windings]

\* the walk along one ring from the event cur; R holds the points so far
RECURSIVE walkRing(_, _, _, _, _, _, _)
RECURSIVE walkTo(_, _, _, _, _, _, _, _)
walkTo(st, first, o, R, index, windings, fuel, next) ==
    IF fuel = 0
    THEN [st |-> [st EXCEPT !.panic = "the walk does not return"], R |-> R]
    ELSE IF next = 0
    THEN IF st.pts[first].open
         THEN [st |-> st, R |-> Append(R, PointOf(st.pts[o]))]
         ELSE [st |-> [st EXCEPT !.panic =
                           "next node for result polygon is nil"],
               R |-> R]
    ELSE IF next = first
    THEN [st |-> [st EXCEPT !.pts[first].open = FALSE], R |-> R]
    ELSE walkRing([st EXCEPT !.pts = visited(@, next, index, windings,
                                             st.pts[first].open)],
                  first, next, Append(R, PointOf(st.pts[next])), index,
                  windings, fuel - 1)

walkRing(st, first, cur, R, index, windings, fuel) ==
    LET o == st.pts[cur].other
        nodes == st.squares[st.pts[o].square].Events
        i0 == IF Pos(nodes, o) = 0 THEN 1 ELSE Pos(nodes, o)
    IN  walkTo(st, first, o, R, index, windings, fuel,
               nextClockwise(st.pts, nodes, i0, i0 - 1, st.pts[first].open,
                             Len(nodes)))

\* the first open event of a square that is still in the result (0: none)
RECURSIVE openInResult(_, _, _)
openInResult(pts, events, i) ==
    IF i > Len(events) THEN 0
    ELSE IF 0 < pts[events[i]].inResult /\ pts[events[i]].open THEN events[i]
    ELSE openInResult(pts, events, i + 1)

\* Path.Reverse of an open path
ReverseOpen(r) == [i \in 1..Len(r) |-> r[Len(r) + 1 - i]]

\* no ring is taken for a hole
neverHole(windings) == FALSE

\* the ring is a hole: the number of rings around it is odd
isHole(windings) == windings % 2 # 0

\* build the ring that starts at the event cur of square sq and add it to
\* Rs (label BuildPath); st.Ropen holds the first part of an open path
RECURSIVE BuildRing(_, _, _, _)
BuildRing(st, sq, cur, fuel) ==
    LET prev == IF st.op # opDIV THEN prevInResult(st.pts, st.pts[cur].prev)
                ELSE 0
        windings == IF prev # 0 THEN st.pts[prev].resultWindings ELSE 0
        hole == isHole(windings)
        \* index into Rs + 1 to group the filling with its holes
        index == IF hole THEN st.pts[prev].index ELSE Len(st.Rs) + 1
        Closing(st2, R, cur2) ==
            IF st2.panic # "" THEN st2
            ELSE IF st2.pts[cur].open
            THEN \* open path, merge separate parts
                 IF Len(st2.Ropen) > 0
                 THEN [st2 EXCEPT !.Rs = Append(@, <<ReverseOpen(R)
                                                   \o Tail(st2.Ropen[1])>>),
                                  !.Ropen = <<>>]
                 ELSE IF cur2 # 0 /\ fuel > 0
                 THEN BuildRing([st2 EXCEPT !.Ropen = <<R>>], sq, cur2,
                                fuel - 1)
                 ELSE [st2 EXCEPT !.Rs = Append(@, <<R>>)]
            ELSE IF hole
            THEN \* orient holes clockwise and put together with the filling
                 IF index < 1 \/ index > Len(st2.Rs)
                 THEN [st2 EXCEPT !.panic = "index out of range"]
                 ELSE [st2 EXCEPT !.Rs[index] = Append(@, ReverseRing(R)),
                                  !.holes = @ + 1]
            ELSE [st2 EXCEPT !.Rs = Append(@, <<R>>)]
        Walked(st2, R) ==
            Closing(st2, R, openInResult(st2.pts, st2.squares[sq].Events, 1))
        Walk(w) == Walked([w.st EXCEPT !.pts[cur].inResult = Decrement8(@)],
                          w.R)
    IN  Walk(walkRing([st EXCEPT !.pts[cur].index = index,
                                 !.pts[cur].resultWindings =
                                     IF st.pts[cur].open THEN windings
                                     ELSE windings + 1],
                      cur, cur, <<PointOf(st.pts[cur])>>, index, windings,
                      4 * Len(st.pts) + 4))

\* put the events of square j and the square itself back into the pools
RECURSIVE poolEvents(_, _, _)
poolEvents(pts, events, i) ==
    IF i > Len(events) THEN pts
    ELSE poolEvents(IF ~pts[events[i]].left
                    THEN PoolPut(PoolPut(pts, pts[events[i]].other), events[i])
                    ELSE pts, events, i + 1)

PoolSquare(st, j) ==
    [st EXCEPT !.pts = poolEvents(@, st.squares[j].Events, 1),
               !.squares[j].pooled = TRUE]

\* a panic ends the call
Stepped(r) == IF r.panic # "" THEN [r EXCEPT !.pc = "done"] ELSE r

\* One step of the loops over squares and events that build the result,
\* from the cursor (st.sq, st.ev): skip the events that start no ring,
\* build the ring of the first one that does, release the squares passed.
RECURSIVE BuildNext(_)
BuildNext(st) ==
    LET cur == st.squares[st.sq].Events[st.ev]
        Built(b) == IF b.panic # "" THEN b ELSE [b EXCEPT !.ev = @ + 1]
    IN  IF st.sq > Len(st.squares) THEN [st EXCEPT !.pc = "done"]
        ELSE IF st.ev > Len(st.squares[st.sq].Events)
        THEN BuildNext([PoolSquare(st, st.sq) EXCEPT !.sq = @ + 1, !.ev = 1])
        ELSE IF ~st.pts[cur].left \/ st.pts[cur].inResult = 0
        THEN BuildNext([st EXCEPT !.ev = @ + 1])
        ELSE Stepped(Built(BuildRing(st, st.sq, cur, Len(st.pts))))

(***************************************************************************)
(* bentleyOttmann: the start of a call and its steps.                      *)
(***************************************************************************)
\* Path.Split: the sub-paths of p, each as a Path of its own
RECURSIVE splitFrom(_, _, _)
splitFrom(p, i, acc) ==
    IF i > Len(p) THEN acc
    ELSE IF p[i].cmd = MoveToCmd \/ Len(acc) = 0
    THEN splitFrom(p, i + 1, Append(acc, <<p[i]>>))
    ELSE splitFrom(p, i + 1,
                   [acc EXCEPT ![Len(acc)] = Append(@, p[i])])

Split(p) == splitFrom(p, 1, <<>>)

\* the sub-paths of all paths of ps (the loop that replaces ps[i] by
\* split[0] and appends split[1:] keeps the first sub-paths in place)
RECURSIVE restOfSplits(_, _)
restOfSplits(ps, i) ==
    IF i > Len(ps) THEN <<>>
    ELSE (IF Len(Split(ps[i])) > 1 THEN Tail(Split(ps[i])) ELSE <<>>)
             \o restOfSplits(ps, i + 1)

SplitAll(ps) ==
    [i \in 1..Len(ps) |-> IF Len(Split(ps[i])) > 1 THEN Split(ps[i])[1]
                          ELSE ps[i]]
        \o restOfSplits(ps, 1)

\* a resulting Path (rings) as path data
RECURSIVE ToPath(_, _)
ToPath(rings, i) ==
    IF i > Len(rings) THEN <<>>
    ELSE Polygon(rings[i]) \o ToPath(rings, i + 1)

\* Path.Close applied to a single sub-path
ClosePath(p) ==
    IF Len(p) <= 1 \/ Closed(p) THEN p
    ELSE Append(p, Cmd(CloseCmd, p[1].X, p[1].Y))

\* Path.FastBounds of a flat path and Rect.Touches
SetMin(S) == CHOOSE v \in S : \A w \in S : v <= w
SetMax(S) == CHOOSE v \in S : \A w \in S : w <= v

FastBounds(p) ==
    IF Len(p) = 0 THEN [X0 |-> 0, Y0 |-> 0, X1 |-> 0, Y1 |-> 0]
    ELSE [X0 |-> SetMin({p[i].X : i \in 1..Len(p)}),
          Y0 |-> SetMin({p[i].Y : i \in 1..Len(p)}),
          X1 |-> SetMax({p[i].X : i \in 1..Len(p)}),
          Y1 |-> SetMax({p[i].Y : i \in 1..Len(p)})]

RectTouches(r, q) ==
    ~(q.X1 < r.X0 \/ r.X1 < q.X0 \/ q.Y1 < r.Y0 \/ r.Y1 < q.Y0)

EmptyState(op, fillRule) ==
    [pc |-> "done", op |-> op, fillRule |-> fillRule,
     pts |-> <<>>, queue |-> <<>>, status |-> <<>>, nodePt |-> <<>>,
     squares |-> <<>>, x |-> 0, n |-> 1, Rs |-> <<>>, Ropen |-> <<>>,
     warn |-> 0, panic |-> "", reentries |-> 0, holes |-> 0,
     settled |-> 0, sq |-> 1, ev |-> 1,
     free |-> {}, reuse |-> FALSE, pick |-> 0,
     popped |-> Pt(0 - Inf, 0 - Inf)]

\* the paths whose bounding box touches none of the other operand are
\* settled on their own and put in front of the result
RECURSIVE settleApart(_, _, _, _, _)
settleApart(st, ps, overlaps, i, fillRule) ==
    LET Settled(r) ==
            settleApart([st EXCEPT !.Rs = Append(@, MergePaths(r.Rs, 1)),
                                   !.settled = @ + 1,
                                   !.panic = IF @ = "" THEN r.panic ELSE @],
                        ps, overlaps, i + 1, fillRule)
    IN  IF i > Len(ps) THEN st
        ELSE IF overlaps[i]
        THEN settleApart(st, ps, overlaps, i + 1, fillRule)
        ELSE Settled(SettleRun(ps[i], fillRule))

RECURSIVE addPaths(_, _, _, _, _, _)
RECURSIVE addedPath(_, _, _, _, _)
addedPath(r, ps, use, i, clipping) ==
    addPaths(r.st, ps, use, i + 1, r.seg, clipping)

addPaths(st, ps, use, i, seg, clipping) ==
    IF i > Len(ps) THEN st
    ELSE IF ~use[i] THEN addPaths(st, ps, use, i + 1, seg, clipping)
    ELSE addedPath(AddPathEndpoints(st, IF clipping THEN ClosePath(ps[i])
                                        ELSE ps[i], seg, clipping),
                   ps, use, i, clipping)

\* the queue is built; the loop over the columns begins at its first event
queued(st5) ==
    IF st5.panic # "" THEN st5
    ELSE IF Len(st5.queue) = 0 THEN [st5 EXCEPT !.pc = "build"]
    ELSE [st5 EXCEPT !.pc = "column",
                     !.x = snap(st5.pts[QueueTop(st5.queue)].X, GridEps)]

\* the heap of the events
heaped(st4) == queued([st4 EXCEPT !.queue = QueueInit(st4.pts, @)])

\* the paths of ps and qs whose bounding boxes touch the other operand
pOverlaps(ps, qs) ==
    [i \in 1..Len(ps) |->
        \E j \in 1..Len(qs) :
            RectTouches(FastBounds(ps[i]), FastBounds(qs[j]))]

qOverlaps(ps, qs) ==
    [j \in 1..Len(qs) |->
        \E i \in 1..Len(ps) :
            RectTouches(FastBounds(ps[i]), FastBounds(qs[j]))]

\* the events of the paths that take part in the sweep: all of ps when there
\* is no second operand
withEvents(st2, ps, qs, hasQ) ==
    heaped(addPaths(addPaths(st2, ps,
                        [i \in 1..Len(ps) |-> ~hasQ \/ pOverlaps(ps, qs)[i]],
                        1, 0, FALSE),
                    qs, qOverlaps(ps, qs), 1, 0, TRUE))

\* only the paths of ps are settled on their own
keptPathsSubjectOnly(ps, qs, op) ==
    [i \in 1..Len(ps) |->
        ~(op \in {opOR, opXOR, opNOT}) \/ pOverlaps(ps, qs)[i]]
    \o [j \in 1..Len(qs) |-> TRUE]

\* the paths of ps, then those of qs, that are not settled on their own
keptPaths(ps, qs, op) ==
    [i \in 1..Len(ps) |->
        ~(op \in {opOR, opXOR, opNOT}) \/ pOverlaps(ps, qs)[i]]
    \o [j \in 1..Len(qs) |->
        ~(op \in {opOR, opXOR}) \/ qOverlaps(ps, qs)[j]]

\* the call for the sub-paths ps and qs of non-empty operands
sweepPaths(ps, qs, op, fillRule) ==
    withEvents(settleApart(EmptyState(op, fillRule), ps \o qs,
                           keptPaths(ps, qs, op), 1, fillRule),
               ps, qs, op # opSettle)

\* the start of a call that returns nothing whenever the subject is empty
SweepBeginSubjectOnly(ps0, qs0, op, fillRule) ==
    IF op # opSettle /\ PathsEmpty(qs0)
    THEN IF op = opAND THEN EmptyState(op, fillRule)
         ELSE sweepPaths(SplitAll(ps0), <<>>, opSettle, fillRule)
    ELSE IF PathsEmpty(ps0) THEN EmptyState(op, fillRule)
    ELSE sweepPaths(SplitAll(ps0),
                    IF op # opSettle THEN SplitAll(qs0) ELSE <<>>,
                    op, fillRule)

\* the state of a call when the loop over the columns begins
RECURSIVE SweepBegin(_, _, _, _)
SweepBegin(ps0, qs0, op, fillRule) ==
    IF op # opSettle /\ PathsEmpty(qs0)
    THEN IF op = opAND THEN EmptyState(op, fillRule)
         ELSE SweepBegin(ps0, <<>>, opSettle, fillRule)
    ELSE IF PathsEmpty(ps0)
    THEN IF op = opOR \/ op = opXOR
         THEN SweepBegin(qs0, <<>>, opSettle, fillRule)
         ELSE EmptyState(op, fillRule)
    ELSE sweepPaths(SplitAll(ps0),
                    IF op # opSettle THEN SplitAll(qs0) ELSE <<>>,
                    op, fillRule)

\* one step of a call
Step(st) ==
    IF st.pc = "column"
    THEN Stepped(IF ~InColumn(st) THEN FinishColumn(st)
                 ELSE IF st.pts[QueueTop(st.queue)].left
                 THEN ProcessLeftEvent(st)
                 ELSE ProcessRightEvent(st))
    ELSE IF st.pc = "build" THEN BuildNext(st)
    ELSE st

\* the loop over the columns, from the state st on
RECURSIVE RunSweep(_)
RunSweep(st) == IF st.pc = "column" THEN RunSweep(Step(st)) ELSE st

\* a whole call, from the state st on
RECURSIVE RunAll(_)
RunAll(st) == IF st.pc = "done" THEN st ELSE RunAll(Step(st))

bentleyOttmann(ps, qs, op, fillRule) ==
    RunAll(SweepBegin(ps, qs, op, fillRule))

\* Path.Settle, as the final state of its call
SettleRun(p, fillRule) == bentleyOttmann(<<p>>, <<>>, opSettle, fillRule)

(***************************************************************************)
(* The calls of bentleyOttmann that are explored.  The operands are taken  *)
(* from the triangles on a small lattice of grid points and a few fixed    *)
(* polygons; sw is the state of the call, probe its arguments.             *)
(***************************************************************************)
MaxCoord == 1    \* the lattice has the columns 0..MaxCoord
LatticeRows == {0, 1, 2}

Lattice == {Pt(GridEps * i, GridEps * j) : i \in 0..MaxCoord, j \in LatticeRows}

Collinear(a, b, c) == PerpDot(b.X - a.X, b.Y - a.Y, c.X - a.X, c.Y - a.Y) = 0

\* the triangles on the lattice that start at their leftmost, lowest corner,
\* in both orientations
Triangles ==
    {Polygon(<<a, b, c>>) : <<a, b, c>> \in
        {t \in Lattice \X Lattice \X Lattice :
            /\ PointLess(t[1], t[2]) /\ PointLess(t[1], t[3])
            /\ ~Collinear(t[1], t[2], t[3])}}

Square(x0, y0, x1, y1) ==
    Polygon(<<Pt(x0, y0), Pt(x1, y0), Pt(x1, y1), Pt(x0, y1)>>)

\* the fixed polygons: a square, a larger square around the middle of the
\* lattice, a triangle in both orientations, a self-intersecting
\* quadrilateral, and two paths of two sub-paths of which the first, a
\* square or a self-intersecting quadrilateral, lies to the right of every
\* triangle
Subjects ==
    { <<>>,
      Square(0, 0, 2 * GridEps, 2 * GridEps),
      Square(0, 0, 3 * GridEps, 3 * GridEps),
      Polygon(<<Pt(0, 0), Pt(GridEps, GridEps), Pt(0, 2 * GridEps)>>),
      Polygon(<<Pt(0, 0), Pt(0, 2 * GridEps), Pt(GridEps, GridEps)>>),
      Polygon(<<Pt(0, 0), Pt(2 * GridEps, 2 * GridEps), Pt(2 * GridEps, 0),
                Pt(0, 2 * GridEps)>>),
      Square(5 * GridEps, 0, 6 * GridEps, GridEps)
          \o Square(0, 0, 2 * GridEps, 2 * GridEps),
      Polygon(<<Pt(5 * GridEps, 0), Pt(7 * GridEps, 2 * GridEps),
                Pt(7 * GridEps, 0), Pt(5 * GridEps, 2 * GridEps)>>)
          \o Square(0, 0, 2 * GridEps, 2 * GridEps) }

Clippings == Triangles \cup
    { <<>>, Square(0, 0, 2 * GridEps, 2 * GridEps),
      Square(GridEps, GridEps, 2 * GridEps, 2 * GridEps) }

\* a path of three triangles: the edge from (0, GridEps) to (10 GridEps, 0)
\* of the first passes above the square around the corner (4 GridEps, 0) of
\* the third, and the second cuts it at x = 7 GridEps, a tenth of GridEps
\* less than a third above the grid line y = 0
Bent ==
    Polygon(<<Pt(0, GridEps), Pt(10 * GridEps, 0),
              Pt(10 * GridEps, 3 * GridEps)>>)
    \o Polygon(<<Pt(7 * GridEps, 0 - GridEps), Pt(9 * GridEps, 0 - GridEps),
                 Pt(7 * GridEps, 2 * GridEps)>>)
    \o Polygon(<<Pt(3 * GridEps, 0 - GridEps), Pt(5 * GridEps, 0 - GridEps),
                 Pt(4 * GridEps, 0)>>)

\* the public entry points: Settle takes the fill rule, the boolean
\* operations use NonZero
Calls ==
    {[ps |-> <<p>>, qs |-> <<q>>, op |-> op, fillRule |-> NonZero] :
        p \in Subjects, q \in Clippings,
        op \in {opAND, opOR, opNOT, opXOR, opDIV}}
    \cup {[ps |-> <<p \o q>>, qs |-> <<>>, op |-> opSettle, fillRule |-> f] :
        p \in Subjects \cup {Bent}, q \in Clippings, f \in FillRule}

Init ==
    /\ probe \in Calls
    /\ sw = SweepBegin(probe.ps, probe.qs, probe.op, probe.fillRule)
    /\ out = NoOut

\* a left endpoint is the next event of the column
LeftEvent ==
    /\ sw.pc = "column" /\ InColumn(sw)
    /\ sw.pts[QueueTop(sw.queue)].left
    /\ \E node \in sw.free \cup {0} :
           sw' = [Stepped(ProcessLeftEvent([sw EXCEPT !.pick = node]))
                      EXCEPT !.pick = 0]
    /\ UNCHANGED <<probe, out>>

\* a right endpoint is the next event of the column
RightEvent ==
    /\ sw.pc = "column" /\ InColumn(sw)
    /\ ~sw.pts[QueueTop(sw.queue)].left
    /\ sw' = Stepped(ProcessRightEvent(sw))
    /\ UNCHANGED <<probe, out>>

\* the events of the column are processed: snap and order its squares
Column ==
    /\ sw.pc = "column" /\ ~InColumn(sw)
    /\ sw' = Stepped(FinishColumn(sw))
    /\ UNCHANGED <<probe, out>>

\* build the next ring of the result, or find that there is none left
BuildPath ==
    /\ sw.pc = "build"
    /\ sw' = BuildNext(sw)
    /\ UNCHANGED <<probe, out>>

Next == LeftEvent \/ RightEvent \/ Column \/ BuildPath

Spec == Init /\ [][Next]_vars

\* Two triangles that bring the sweep back into a column: an edge of the
\* first starts at (5, 1) and is snapped to (4, 0), after which it crosses an
\* edge of the second that it passed below, inside the column it starts in
Recrossed ==
    { Polygon(<<Pt(5, 1), Pt(9, 1), Pt(7, 13)>>)
          \o Polygon(<<Pt(0, 8), Pt(6, 8), Pt(0, 12)>>),
      Polygon(<<Pt(5, 1), Pt(9, 1), Pt(7, 15)>>)
          \o Polygon(<<Pt(5, 5), Pt(6, 9), Pt(5, 12)>>),
      Polygon(<<Pt(5, 1), Pt(9, 1), Pt(7, 15)>>)
          \o Polygon(<<Pt(5, 5), Pt(6, 9), Pt(0, 12)>>) }

\* the calls that come back into a column: Settle of the paths above, and
\* the boolean operations on their two triangles
AgainCalls ==
    {[ps |-> <<p>>, qs |-> <<>>, op |-> opSettle, fillRule |-> f] :
        p \in Recrossed, f \in FillRule}
    \cup {[ps |-> <<SubSeq(p, 1, 4)>>, qs |-> <<SubSeq(p, 5, 8)>>,
           op |-> op, fillRule |-> NonZero] :
        p \in Recrossed, op \in {opAND, opOR, opNOT, opXOR, opDIV}}

InitAgain ==
    /\ probe \in AgainCalls
    /\ sw = [SweepBegin(probe.ps, probe.qs, probe.op, probe.fillRule)
                EXCEPT !.reuse = TRUE]
    /\ out = NoOut

SpecAgain == InitAgain /\ [][Next]_vars

\* the calls of both catalogues
SpecColumns == (Init \/ InitAgain) /\ [][Next]_vars

(***************************************************************************)
(* relate: the classification of the intersections of two inputs.  The     *)
(* state of a call holds the sweep points, the queue and the status as in  *)
(* bentleyOttmann, the relation byte rel, the intersections zs (zsAll) and *)
(* the right endpoints at the current position (rights).                   *)
(***************************************************************************)
\* the bits for a subject endpoint and a clipping endpoint that meet in a
\* point; pEnd and qEnd: the endpoint ends an open path
touchBits(pOpen, qOpen, pEnd, qEnd) ==
    IF pOpen /\ qOpen
    THEN IF pEnd /\ qEnd THEN relBB
         ELSE IF pEnd THEN relBI
         ELSE IF qEnd THEN relIB
         ELSE relII
    ELSE IF pOpen THEN (IF pEnd THEN relBB ELSE relIB)
    ELSE IF qOpen THEN (IF qEnd THEN relBB ELSE relBI)
    ELSE relBB

\* the bits for a subject segment and a clipping segment that overlap; pEnd
\* and qEnd: one of the endpoints of the segment ends an open path
overlapBits(pOpen, qOpen, pEnd, qEnd) ==
    IF pOpen /\ qOpen
    THEN BitOr(relII, IF pEnd /\ qEnd THEN relBB
                      ELSE IF pEnd THEN relBI
                      ELSE IF qEnd THEN relIB
                      ELSE 0)
    ELSE IF pOpen THEN BitOr(relIB, IF pEnd THEN relBB ELSE 0)
    ELSE IF qOpen THEN BitOr(relBI, IF qEnd THEN relBB ELSE 0)
    ELSE relBB

\* touchBits for the endpoints a and b, of which one is of the clipping input
touchOf(A, B) ==
    IF A.clipping THEN touchBits(B.open, A.open, B.end, A.end)
    ELSE touchBits(A.open, B.open, A.end, B.end)

\* eventRelation for a left endpoint: the right endpoints at its position
\* that belong to the other input meet it there
RECURSIVE relationLeftFrom(_, _, _, _)
relationLeftFrom(st, event, rights, i) ==
    IF i > Len(rights) THEN st
    ELSE IF st.pts[rights[i]].clipping = st.pts[event].clipping
    THEN relationLeftFrom(st, event, rights, i + 1)
    ELSE relationLeftFrom(
             [st EXCEPT
                 !.rel = BitOr(@, touchOf(st.pts[event], st.pts[rights[i]])),
                 !.zs = IF /\ \/ ~st.pts[st.pts[rights[i]].other].overlapped
                              \/ st.pts[rights[i]].end
                           /\ \/ Len(@) = 0
                              \/ @[Len(@)] # PointOf(st.pts[event])
                        THEN \* add endpoint intersections of non-overlapped
                             \* segments
                             Append(@, PointOf(st.pts[event]))
                        ELSE @],
             event, rights, i + 1)

\* the segment other has the endpoints of the segment of the left endpoint
\* event: its windings are added to those of event, and other is overlapped
mergedRight(st, event, other) ==
    LET E == st.pts[event]
        O == st.pts[other]
        P == IF E.clipping THEN O ELSE E
        Q == IF E.clipping THEN E ELSE O
    IN  [st EXCEPT
            !.pts[event].selfWindings =
                @ + (IF E.clipping = O.clipping THEN O.selfWindings
                     ELSE O.otherSelfWindings),
            !.pts[event].otherSelfWindings =
                @ + (IF E.clipping = O.clipping THEN O.otherSelfWindings
                     ELSE O.selfWindings),
            !.pts[other].prev = E.prev,
            !.pts[other].overlapped = TRUE,
            !.rel = IF E.clipping = O.clipping THEN @
                    ELSE BitOr(@, overlapBits(P.open, Q.open,
                                     P.end \/ st.pts[P.other].end,
                                     Q.end \/ st.pts[Q.other].end)),
            !.hasSubject = @ \/ ~O.clipping,
            !.hasClipping = @ \/ O.clipping]

\* mergeRights where the segments that end with event are left apart
mergeRightsNone(st, event, rights, i) == st

\* the loop of eventRelation over the right endpoints before the event, last
\* first, as long as their segments start where the segment of event starts
RECURSIVE mergeRights(_, _, _, _)
mergeRights(st, event, rights, i) ==
    IF i < 1 THEN st
    ELSE IF PointOf(st.pts[st.pts[rights[i]].other]) # PointOf(st.pts[event])
    THEN st
    ELSE mergeRights(mergedRight(st, event, st.pts[rights[i]].other),
                     event, rights, i - 1)

\* zs with the point e inserted at its place in the order from left to
\* right and from bottom to top, unless the point there is e
RECURSIVE insertIndex(_, _, _)
insertIndex(zs, e, index) ==
    IF 0 < index /\ (e.X < zs[index].X
                     \/ (e.X = zs[index].X /\ e.Y <= zs[index].Y))
    THEN insertIndex(zs, e, index - 1)
    ELSE index

insertPoint(zs, e, index) ==
    IF index = Len(zs) \/ zs[index + 1] # e
    THEN SubSeq(zs, 1, index) \o <<e>> \o SubSeq(zs, index + 1, Len(zs))
    ELSE zs

\* the segment of the left endpoint event and the segment below it, of the
\* other input, start or end in the same point
relationPrev(st, event) ==
    LET E == st.pts[event]
        V == st.pts[E.prev]
        equalStart == PointOf(E) = PointOf(V)
        A == IF equalStart THEN E ELSE st.pts[E.other]
        B == IF equalStart THEN V ELSE st.pts[V.other]
    IN  IF equalStart \/ PointOf(st.pts[E.other]) = PointOf(st.pts[V.other])
        THEN [st EXCEPT
                 !.rel = BitOr(@, touchOf(A, B)),
                 !.zs = insertPoint(@, PointOf(A),
                                    insertIndex(@, PointOf(A), Len(@)))]
        ELSE st

\* the bits of the relation from the filling of both inputs below and above
\* the segment E
fillBits(E, hasSubject, hasClipping) ==
    LET b0 == E.windings # 0
        a0 == (E.windings + E.selfWindings) # 0
        b1 == E.otherWindings # 0
        a1 == (E.otherWindings + E.otherSelfWindings) # 0
        pFillsBelow == IF E.clipping THEN b1 ELSE b0
        pFillsAbove == IF E.clipping THEN a1 ELSE a0
        qFillsBelow == IF E.clipping THEN b0 ELSE b1
        qFillsAbove == IF E.clipping THEN a0 ELSE a1
        Bit(c, b) == IF c THEN b ELSE 0
    IN  IF E.open
        THEN IF ~E.clipping /\ ~hasClipping /\ qFillsBelow = qFillsAbove
             THEN (IF qFillsBelow THEN relII ELSE relIE)
             ELSE IF E.clipping /\ ~hasSubject /\ pFillsBelow = pFillsAbove
             THEN (IF pFillsBelow THEN relII ELSE relEI)
             ELSE 0
        ELSE Bit((pFillsBelow /\ qFillsBelow) \/ (pFillsAbove /\ qFillsAbove),
                 relII)
             + Bit((pFillsBelow /\ ~qFillsBelow)
                   \/ (pFillsAbove /\ ~qFillsAbove), relIE)
             + Bit((~pFillsBelow /\ qFillsBelow)
                   \/ (~pFillsAbove /\ qFillsAbove), relEI)
             + Bit(pFillsBelow = pFillsAbove /\ ~hasSubject,
                   IF pFillsBelow THEN relIB ELSE relEB)
             + Bit(qFillsBelow = qFillsAbove /\ ~hasClipping,
                   IF qFillsBelow THEN relBI ELSE relBE)

\* eventRelation for a right endpoint, after the loop over rights
relationFilled(st, event) ==
    [st EXCEPT !.rel = BitOr(@, fillBits(st.pts[event], st.hasSubject,
                                         st.hasClipping))]

relationBelow(st, event) ==
    relationFilled(
        IF /\ ~st.pts[event].overlapped /\ st.pts[event].prev # 0
           /\ st.pts[event].clipping # st.pts[st.pts[event].prev].clipping
        THEN relationPrev(st, event)
        ELSE st, event)

relationMerged(st, event) ==
    relationBelow([st EXCEPT !.pts[event].overlapped =
                                 @ \/ (st.hasSubject /\ st.hasClipping)],
                  event)

\* eventRelation for a right endpoint: event is the left endpoint of its
\* segment
relationRight(st, event, rights) ==
    IF st.pts[event].overlapped THEN st
    ELSE relationMerged(
             mergeRights([st EXCEPT !.hasSubject = ~st.pts[event].clipping,
                                    !.hasClipping = st.pts[event].clipping],
                         event, rights, Len(rights)),
             event)

\* eventRelation
eventRelation(st, event, rights) ==
    IF st.pts[event].left THEN relationLeftFrom(st, event, rights, 1)
    ELSE relationRight(st, st.pts[event].other, rights)

\* the right endpoints at the last position are handled, each last segment
\* of a set of overlapping segments with the right endpoints before it
RECURSIVE relateRightsFrom(_, _)
relateRightsFrom(st, i) ==
    IF i > Len(st.rights) THEN st
    ELSE IF \/ i = Len(st.rights)
            \/ PointOf(st.pts[st.pts[st.rights[i + 1]].other])
                   # PointOf(st.pts[st.pts[st.rights[i]].other])
    THEN relateRightsFrom(eventRelation(st, st.rights[i],
                                        SubSeq(st.rights, 1, i - 1)), i + 1)
    ELSE relateRightsFrom(st, i + 1)

relateRights(st) ==
    IF st.processedRights THEN st ELSE relateRightsFrom(st, 1)

\* the start of an iteration of the loop of relate: the queue has moved on
\* from the position of the right endpoints that were collected
rightsLeft(st) ==
    IF /\ 0 < Len(st.rights)
       /\ PointOf(st.pts[st.rights[1]]) # PointOf(st.pts[QueueTop(st.queue)])
    THEN [relateRights(st) EXCEPT !.rights = <<>>]
    ELSE st

\* a right endpoint in relate: its segment leaves the status and the
\* endpoint is collected
relateRemoved(st2, event, n) ==
    [StatusRemove(st2, n) EXCEPT !.rights = Append(@, event),
                                 !.processedRights = FALSE]

relateNeighbours(st1, event, n, prev, next) ==
    relateRemoved(IF prev # 0 /\ next # 0
                  THEN addIntersections(st1, EventOf(st1, event),
                           NodePoint(st1, prev), NodePoint(st1, next)).st
                  ELSE st1, event, n)

relatePopped(st1, event, n) ==
    IF n = 0
    THEN [st1 EXCEPT !.panic = "right-endpoint not part of status"]
    ELSE IF st1.nodePt[n] = 0
    THEN [st1 EXCEPT !.panic = "other endpoint already removed"]
    ELSE relateNeighbours(st1, event, n, NodePrev(st1, n), NodeNext(st1, n))

relateRightEvent(st) ==
    relatePopped([st EXCEPT !.queue = QueuePop(st.pts, st.queue),
                            !.popped = PointOf(st.pts[QueueTop(st.queue)])],
                 QueueTop(st.queue),
                 st.pts[st.pts[QueueTop(st.queue)].other].node)

\* a left endpoint in relate that is still the top of the queue: it enters
\* the status, its sweep fields are computed (no operation: the segment is
\* not in a result) and the relation is updated
relateFields(st5, event, prev) ==
    eventRelation(
        [st5 EXCEPT !.pts = computeSweepFields(@, event,
                                IF prev = 0 THEN 0 ELSE NodePoint(st5, prev),
                                opNone, NonZero)],
        event, st5.rights)

relateInserted(st3, event, prev) ==
    relateFields(InsertAfter(
                     [st3 EXCEPT !.queue = QueuePop(st3.pts, st3.queue),
                                 !.popped = PointOf(st3.pts[event]),
                                 !.processedRights = TRUE],
                     prev, event), event, prev)

relateChecked(st2, event, pn) ==
    IF QueueTop(st2.queue) # event
    THEN st2   \* the queue order was changed
    ELSE relateInserted(relateRights(st2), event, pn.prev)

relateAbove(st1, event, pn) ==
    relateChecked(IF pn.next # 0
                  THEN addIntersections(st1, EventOf(st1, event), event,
                                        NodePoint(st1, pn.next)).st
                  ELSE st1, event, pn)

relateBelow(st, event, pn) ==
    relateAbove(IF pn.prev # 0
                THEN addIntersections(st, EventOf(st, event),
                                      NodePoint(st, pn.prev), event).st
                ELSE st, event, pn)

relateLeftEvent(st) ==
    relateBelow(st, QueueTop(st.queue), FindPrevNext(st, QueueTop(st.queue)))

\* the end of relate: the last right endpoints are handled
relateReturn(st) ==
    [relateRights(st) EXCEPT !.pc = "done"]

\* the state of relate when its loop begins; qs is always given
relateState ==
    [pc |-> "relate", pts |-> <<>>, queue |-> <<>>, status |-> <<>>,
     nodePt |-> <<>>, rel |-> 0, zs |-> <<>>, rights |-> <<>>,
     processedRights |-> FALSE, hasSubject |-> FALSE, hasClipping |-> FALSE,
     warn |-> 0, panic |-> "", free |-> {}, reuse |-> FALSE, pick |-> 0,
     popped |-> Pt(0 - Inf, 0 - Inf)]

\* the endpoints of all paths of one input (relate does not close q)
RECURSIVE relatePaths(_, _, _, _, _)
RECURSIVE relatedPath(_, _, _, _)
relatedPath(r, ps, i, clipping) == relatePaths(r.st, ps, i + 1, r.seg, clipping)

relatePaths(st, ps, i, seg, clipping) ==
    IF i > Len(ps) THEN st
    ELSE relatedPath(AddPathEndpoints(st, ps[i], seg, clipping), ps, i,
                     clipping)

relateHeaped(st) == Stepped([st EXCEPT !.queue = QueueInit(st.pts, @)])

relateBegin(ps, qs) ==
    IF PathsEmpty(ps) \/ PathsEmpty(qs)
    THEN [relateState EXCEPT !.pc = "done"]
    ELSE relateHeaped(relatePaths(relatePaths(relateState, ps, 1, 0, FALSE),
                                  qs, 1, 0, TRUE))

\* one iteration of the loop of relate, or its end
relateStep(st) ==
    IF Len(st.queue) = 0 THEN relateReturn(st)
    ELSE IF st.pts[QueueTop(st.queue)].left
    THEN Stepped(relateLeftEvent(rightsLeft(st)))
    ELSE Stepped(relateRightEvent(rightsLeft(st)))

\* relate, as the final state of its call
RECURSIVE relateRun(_)
relateRun(st) == IF st.pc = "done" THEN st ELSE relateRun(relateStep(st))

relate(ps, qs) == relateRun(relateBegin(ps, qs))

(***************************************************************************)
(* The calls of relate that are explored: Path.Relate(q) for the fixed     *)
(* polygons and open paths p below and q one of them or a triangle on the  *)
(* lattice.                                                                *)
(***************************************************************************)
\* the open path through the points of v
OpenPath(v) == <<Cmd(MoveToCmd, v[1].X, v[1].Y)>> \o LineTos(v, 2)

RelateSubjects ==
    { <<>>,
      Square(0, 0, GridEps, GridEps),
      Square(GridEps, 0, 2 * GridEps, GridEps),
      Square(0, 0, 2 * GridEps, 2 * GridEps),
      Square(0 - GridEps, 0 - GridEps, 3 * GridEps, 3 * GridEps),
      Square(2 * GridEps, 0, 3 * GridEps, GridEps),
      Polygon(<<Pt(0, 0), Pt(GridEps, 0), Pt(0, 2 * GridEps)>>),
      Polygon(<<Pt(0, 0), Pt(0, 2 * GridEps), Pt(GridEps, 0)>>),
      Polygon(<<Pt(0, 0), Pt(2 * GridEps, 2 * GridEps), Pt(2 * GridEps, 0),
                Pt(0, 2 * GridEps)>>),
      OpenPath(<<Pt(0, 0), Pt(GridEps, GridEps)>>),
      OpenPath(<<Pt(0 - GridEps, GridEps), Pt(GridEps, GridEps),
                 Pt(GridEps, 3 * GridEps)>>) }

RelateCalls ==
    {[ps |-> Split(p), qs |-> Split(q)] :
        p \in RelateSubjects, q \in RelateSubjects \cup Triangles}

InitRelate ==
    /\ probe \in RelateCalls
    /\ sw = relateBegin(probe.ps, probe.qs)
    /\ out = NoOut

\* a left endpoint is the top of the queue of relate
RelateLeft ==
    /\ sw.pc = "relate" /\ Len(sw.queue) > 0
    /\ sw.pts[QueueTop(sw.queue)].left
    /\ sw' = relateStep(sw)
    /\ UNCHANGED <<probe, out>>

\* a right endpoint is the top of the queue of relate
RelateRight ==
    /\ sw.pc = "relate" /\ Len(sw.queue) > 0
    /\ ~sw.pts[QueueTop(sw.queue)].left
    /\ sw' = relateStep(sw)
    /\ UNCHANGED <<probe, out>>

\* the queue is empty: relate returns the relation and the intersections
RelateReturn ==
    /\ sw.pc = "relate" /\ Len(sw.queue) = 0
    /\ sw' = relateStep(sw)
    /\ out' = [rel |-> sw'.rel, zs |-> sw'.zs]
    /\ UNCHANGED probe

NextRelate == RelateLeft \/ RelateRight \/ RelateReturn

SpecRelate == InitRelate /\ [][NextRelate]_vars

(***************************************************************************)
(* A call of bentleyOttmann or of relate.                                  *)
(***************************************************************************)
InitSweeps == Init \/ InitRelate

NextSweeps == Next \/ NextRelate

SpecSweeps == InitSweeps /\ [][NextSweeps]_vars

(***************************************************************************)
(* The queue on its own: SweepEvents holding endpoints of a fixed set of   *)
(* segments, under Init, Push, Top, Pop and Fix.  probe records the last   *)
(* call: the array it was made on and the element pushed or returned.      *)
(***************************************************************************)
MaxQueue == 4    \* the queue holds at most MaxQueue endpoints

\* the endpoints of a triangle of the subject and of a segment of the
\* clipping input that lies on its lower side
HeapPoints ==
    relatePaths(
        relatePaths(relateState,
            <<Polygon(<<Pt(0, 0), Pt(GridEps, 0), Pt(0, 2 * GridEps)>>)>>,
            1, 0, FALSE),
        <<OpenPath(<<Pt(0, 0), Pt(GridEps, 0)>>)>>, 1, 0, TRUE).pts

HeapItems == 1..Len(HeapPoints)

\* the arrays of at most n different endpoints
HeapArrays(n) ==
    {q \in UNION {[1..k -> HeapItems] : k \in 0..n} :
        \A i, j \in DOMAIN q : i # j => q[i] # q[j]}

InQueue(q) == {q[i] : i \in DOMAIN q}

HeapState(q) == [pc |-> "heap", pts |-> HeapPoints, queue |-> q]

InitHeap ==
    \E q \in HeapArrays(MaxQueue) :
        /\ probe = [op |-> "Init", before |-> q, item |-> 0]
        /\ sw = HeapState(QueueInit(HeapPoints, q))
        /\ out = NoOut

HeapPush ==
    /\ sw.pc = "heap" /\ Len(sw.queue) < MaxQueue
    /\ \E item \in HeapItems \ InQueue(sw.queue) :
          /\ sw' = [sw EXCEPT !.queue = QueuePush(sw.pts, @, item)]
          /\ probe' = [op |-> "Push", before |-> sw.queue, item |-> item]
    /\ UNCHANGED out

HeapTop ==
    /\ sw.pc = "heap" /\ Len(sw.queue) > 0
    /\ probe' = [op |-> "Top", before |-> sw.queue,
                 item |-> QueueTop(sw.queue)]
    /\ UNCHANGED <<sw, out>>

HeapPop ==
    /\ sw.pc = "heap" /\ Len(sw.queue) > 0
    /\ sw' = [sw EXCEPT !.queue = QueuePop(sw.pts, @)]
    /\ probe' = [op |-> "Pop", before |-> sw.queue,
                 item |-> QueuePopped(sw.pts, sw.queue)]
    /\ UNCHANGED out

\* the element at position i is given another value, or none, and Fix(i)
\* is called
HeapFix ==
    /\ sw.pc = "heap"
    /\ \E i \in 0..(Len(sw.queue) - 1) :
          \E item \in (HeapItems \ InQueue(sw.queue)) \cup {sw.queue[i + 1]} :
              /\ sw' = [sw EXCEPT !.queue =
                           QueueFix(sw.pts, [@ EXCEPT ![i + 1] = item], i)]
              /\ probe' = [op |-> "Fix",
                           before |-> [sw.queue EXCEPT ![i + 1] = item],
                           item |-> item]
    /\ UNCHANGED out

NextHeap == HeapPush \/ HeapTop \/ HeapPop \/ HeapFix

SpecHeap == InitHeap /\ [][NextHeap]_vars

(***************************************************************************)
(* The comparators on their own: two endpoints a and b, one of each of two *)
(* segments between points of a small lattice.                             *)
(***************************************************************************)
MaxCmp == 2    \* the lattice of the comparators is (0..MaxCmp) x (0..MaxCmp)

CmpLattice == {Pt(x, y) : x \in 0..MaxCmp, y \in 0..MaxCmp}

\* a segment from p0 to p1, the segment with number seg of an input
CmpSegments(clippings, segs) ==
    {s \in [p0 : CmpLattice, p1 : CmpLattice, clipping : clippings,
             seg : segs] : s.p0 # s.p1}

\* the endpoints of the segments s and t: 1 and 2 are those of s, 3 and 4
\* those of t
CmpPoints(s, t) ==
    AddPathEndpoints(
        AddPathEndpoints(relateState, OpenPath(<<s.p0, s.p1>>), s.seg - 1,
                         s.clipping).st,
        OpenPath(<<t.p0, t.p1>>), t.seg - 1, t.clipping).st.pts

\* a and b are both left or both right endpoints, at one point
Coincident(A, B) == A.X = B.X /\ A.Y = B.Y /\ A.left = B.left

\* the comparators for a and b, in both orders; compareTangentsV is called
\* for coincident endpoints only
Compared(pts, a, b) ==
    [LessH |-> <<LessH(pts, a, b), LessH(pts, b, a)>>,
     CompareH |-> <<CompareH(pts, a, b), CompareH(pts, b, a)>>,
     CompareV |-> <<CompareV(pts, a, b), CompareV(pts, b, a)>>,
     compareTangentsV |->
         IF Coincident(pts[a], pts[b])
         THEN <<compareTangentsV(pts, a, b), compareTangentsV(pts, b, a)>>
         ELSE <<>>]

InitCompare ==
    /\ probe \in [s : CmpSegments(BOOLEAN, {2}),
                  t : CmpSegments(BOOLEAN, {1, 2, 3})]
    /\ sw = [pc |-> "compare", pts |-> CmpPoints(probe.s, probe.t),
             a |-> 0, b |-> 0]
    /\ out = NoOut

Compare ==
    /\ sw.pc = "compare"
    /\ \E a \in {1, 2}, b \in {3, 4} :
          /\ sw' = [sw EXCEPT !.pc = "done", !.a = a, !.b = b]
          /\ out' = Compared(sw.pts, a, b)
    /\ UNCHANGED probe

NextCompare == Compare

SpecCompare == InitCompare /\ [][NextCompare]_vars

(***************************************************************************)
(* SweepStatus as the tree it is: an AVL tree of SweepNode.  nd[n] holds   *)
(* the fields of node n, 0 is nil, and a node whose pt is 0 is in the pool *)
(* of nodes.  newNode takes the node with the number of its item from the  *)
(* pool, which resets all its fields.                                      *)
(***************************************************************************)
MaxTree == 6    \* the segments the status tree is filled with

ZeroNode == [parent |-> 0, left |-> 0, right |-> 0, height |-> 0, pt |-> 0]

\* horizontal segments one above the other, of the subject
RECURSIVE TreePaths(_)
TreePaths(k) ==
    IF k = 0 THEN <<>>
    ELSE Append(TreePaths(k - 1),
                OpenPath(<<Pt(0, k - 1), Pt(GridEps, k - 1)>>))

TreePoints == relatePaths(relateState, TreePaths(MaxTree), 1, 0, FALSE).pts

\* the left endpoints
TreeItems == {e \in 1..Len(TreePoints) : TreePoints[e].left}

EmptyTree ==
    [root |-> 0, nd |-> [n \in 1..Len(TreePoints) |-> ZeroNode], panic |-> ""]

\* SweepNode.balance
balance(nd, n) ==
    (IF nd[n].right # 0 THEN nd[nd[n].right].height ELSE 0)
        - (IF nd[n].left # 0 THEN nd[nd[n].left].height ELSE 0)

\* SweepNode.updateHeight
updateHeight(nd, n) ==
    LET l == IF nd[n].left # 0 THEN nd[nd[n].left].height ELSE 0
        r == IF nd[n].right # 0 THEN nd[nd[n].right].height ELSE 0
    IN  [nd EXCEPT ![n].height = (IF l < r THEN r ELSE l) + 1]

\* b.parent = n for a node b that is not nil
withParent(nd, b, n) == IF b # 0 THEN [nd EXCEPT ![b].parent = n] ELSE nd

\* SweepNode.swapChild
swapChild(nd, n, a, b) ==
    withParent(IF nd[n].right = a THEN [nd EXCEPT ![n].right = b]
               ELSE [nd EXCEPT ![n].left = b],
               b, n)

\* a's parent takes b as its child in place of a, or b becomes a root
replaceChild(nd, a, b) ==
    IF nd[a].parent # 0 THEN swapChild(nd, nd[a].parent, a, b)
    ELSE [nd EXCEPT ![b].parent = 0]

\* SweepNode.rotateLeft, for a node a with a right child b: b is returned
rotateLeft(nd, a) ==
    LET b == nd[a].right
        n1 == [replaceChild(nd, a, b) EXCEPT ![a].parent = b,
                                             ![a].right = nd[b].left]
    IN  [withParent(n1, n1[a].right, a) EXCEPT ![b].left = a]

\* SweepNode.rotateRight, for a node a with a left child b: b is returned
rotateRight(nd, a) ==
    LET b == nd[a].left
        n1 == [replaceChild(nd, a, b) EXCEPT ![a].parent = b,
                                             ![a].left = nd[b].right]
    IN  [withParent(n1, n1[a].left, a) EXCEPT ![b].right = a]

rotatedLeftSingle(nd, n) ==
    [nd |-> updateHeight(rotateLeft(nd, n), n), n |-> nd[n].right]

\* the rotations of rebalance for a node n that is right-heavy by two: the
\* nodes and the root of the rotated subtree
rotatedLeft(nd, n) ==
    LET r == nd[n].right
        n1 == IF r # 0 /\ balance(nd, r) < 0
              THEN \* the right tree is left-heavy: rotate it to the right
                   updateHeight(rotateRight(nd, r), r)
              ELSE nd
    IN  [nd |-> updateHeight(rotateLeft(n1, n), n), n |-> n1[n].right]

\* the same for a node n that is left-heavy by two
rotatedRight(nd, n) ==
    LET l == nd[n].left
        n1 == IF l # 0 /\ 0 < balance(nd, l)
              THEN \* the left tree is right-heavy: rotate it to the left
                   updateHeight(rotateLeft(nd, l), l)
              ELSE nd
    IN  [nd |-> updateHeight(rotateRight(n1, n), n), n |-> n1[n].left]

\* SweepStatus.rebalance: the loop from node n upwards
RECURSIVE rebalance(_, _)
RECURSIVE rebalanced(_, _, _)
rebalanced(t, r, oheight) ==   \* after the rotations at a node: r.n replaces it
    LET nd1 == updateHeight(r.nd, r.n)
    IN  IF nd1[r.n].parent = 0
        THEN [t EXCEPT !.nd = nd1, !.root = r.n]
        ELSE IF oheight = nd1[r.n].height THEN [t EXCEPT !.nd = nd1]
        ELSE rebalance([t EXCEPT !.nd = nd1], nd1[r.n].parent)

rebalance(t, n) ==
    IF balance(t.nd, n) = 2
    THEN rebalanced(t, rotatedLeft(t.nd, n), t.nd[n].height)
    ELSE IF balance(t.nd, n) = 0 - 2
    THEN rebalanced(t, rotatedRight(t.nd, n), t.nd[n].height)
    ELSE IF balance(t.nd, n) < 0 - 2 \/ 2 < balance(t.nd, n)
    THEN [t EXCEPT !.panic = "Tree too far out of shape!"]
    ELSE rebalanced(t, [nd |-> t.nd, n |-> n], t.nd[n].height)

\* SweepStatus.newNode: the node of item
newNode(nd, item) ==
    [nd EXCEPT ![item] = [ZeroNode EXCEPT !.height = 1, !.pt = item]]

\* SweepStatus.returnNode (the fields that newNode resets are cleared here)
returnNode(nd, n) == [nd EXCEPT ![n] = ZeroNode]

\* SweepStatus.First and Last
RECURSIVE leftMost(_, _)
leftMost(nd, n) == IF nd[n].left # 0 THEN leftMost(nd, nd[n].left) ELSE n

RECURSIVE rightMost(_, _)
rightMost(nd, n) == IF nd[n].right # 0 THEN rightMost(nd, nd[n].right) ELSE n

TreeFirst(t) == IF t.root = 0 THEN 0 ELSE leftMost(t.nd, t.root)

TreeLast(t) == IF t.root = 0 THEN 0 ELSE rightMost(t.nd, t.root)

\* SweepNode.Prev and Next
RECURSIVE upWhileLeft(_, _)
upWhileLeft(nd, n) ==
    IF nd[n].parent # 0 /\ nd[nd[n].parent].left = n
    THEN upWhileLeft(nd, nd[n].parent) ELSE nd[n].parent

RECURSIVE upWhileRight(_, _)
upWhileRight(nd, n) ==
    IF nd[n].parent # 0 /\ nd[nd[n].parent].right = n
    THEN upWhileRight(nd, nd[n].parent) ELSE nd[n].parent

TreePrev(nd, n) ==
    IF nd[n].left # 0 THEN rightMost(nd, nd[n].left) ELSE upWhileLeft(nd, n)

TreeNext(nd, n) ==
    IF nd[n].right # 0 THEN leftMost(nd, nd[n].right) ELSE upWhileRight(nd, n)

\* SweepStatus.find: the node the search for item ends at, and the side
RECURSIVE treeFind(_, _, _, _)
treeFind(pts, nd, item, n) ==
    IF n = 0 THEN [n |-> 0, cmp |-> 0]
    ELSE IF CompareV(pts, item, nd[n].pt) < 0
    THEN IF nd[n].left = 0 THEN [n |-> n, cmp |-> 0 - 1]
         ELSE treeFind(pts, nd, item, nd[n].left)
    ELSE IF 0 < CompareV(pts, item, nd[n].pt)
    THEN IF nd[n].right = 0 THEN [n |-> n, cmp |-> 1]
         ELSE treeFind(pts, nd, item, nd[n].right)
    ELSE [n |-> n, cmp |-> 0]

\* the new node of item has become a child of n; grown: n had no child
insertedBelow(t, n, grown) ==
    IF grown /\ t.nd[n].parent # 0
    THEN rebalance([t EXCEPT !.nd[n].height = @ + 1], t.nd[n].parent)
    ELSE t

\* item becomes the left or the right child of n
childLeft(t, n, item) ==
    insertedBelow([t EXCEPT !.nd = [newNode(@, item) EXCEPT
                                       ![n].left = item,
                                       ![item].parent = n]],
                  n, t.nd[n].right = 0)

childRightAsLeft(t, n, item) == childLeft(t, n, item)

childRight(t, n, item) ==
    insertedBelow([t EXCEPT !.nd = [newNode(@, item) EXCEPT
                                       ![n].right = item,
                                       ![item].parent = n]],
                  n, t.nd[n].left = 0)

\* SweepStatus.Insert
TreeInsertAt(t, item, f) ==
    IF f.cmp < 0 THEN childLeft(t, f.n, item)
    ELSE IF 0 < f.cmp THEN childRight(t, f.n, item)
    ELSE \* equal, replace
         [t EXCEPT !.nd[f.n].pt = item]

TreeInsert(pts, t, item) ==
    IF t.root = 0
    THEN [t EXCEPT !.nd = newNode(@, item), !.root = item]
    ELSE TreeInsertAt(t, item, treeFind(pts, t.nd, item, t.root))

\* SweepStatus.InsertAfter
TreeInsertAfter(t, n, item) ==
    IF n = 0
    THEN IF t.root = 0
         THEN [t EXCEPT !.nd = newNode(@, item), !.root = item]
         ELSE \* insert as left-most node in tree
              childLeft(t, leftMost(t.nd, t.root), item)
    ELSE IF t.nd[n].right = 0
    THEN \* insert directly to the right of n
         childRight(t, n, item)
    ELSE \* insert next to n at a deeper level
         childLeft(t, leftMost(t.nd, t.nd[n].right), item)

\* the loop of Remove that rebalances all ancestors
RECURSIVE rebalanceAll(_, _)
RECURSIVE rebalanceUp(_, _)
rebalanceAll(t, ancestor) ==
    IF ancestor = 0 \/ t.panic # "" THEN t
    ELSE rebalanceUp(rebalance(t, ancestor), ancestor)

rebalanceUp(t, ancestor) == rebalanceAll(t, t.nd[ancestor].parent)

\* Remove of a node n with at most one child
removeSingle(t, n) ==
    LET child == IF t.nd[n].left = 0 THEN t.nd[n].right ELSE t.nd[n].left
        p == t.nd[n].parent
    IN  IF p # 0
        THEN [t EXCEPT !.nd = withParent(swapChild(@, p, n, child), child, p)]
        ELSE [t EXCEPT !.root = child, !.nd = withParent(@, child, 0)]

\* Remove of a node n with two children: its successor succ takes its place
removeDouble(t, n, succ) ==
    LET nd1 == swapChild(t.nd, t.nd[succ].parent, succ, t.nd[succ].right)
        nd2 == [nd1 EXCEPT ![succ].parent = nd1[n].parent,
                           ![succ].left = nd1[n].left,
                           ![succ].right = nd1[n].right]
        nd3 == IF nd2[n].parent # 0
               THEN swapChild(nd2, nd2[n].parent, n, succ) ELSE nd2
    IN  [t EXCEPT
            !.root = IF nd2[n].parent # 0 THEN @ ELSE succ,
            !.nd = withParent(withParent(nd3, nd3[n].left, succ),
                              nd3[n].right, succ)]

\* SweepStatus.Remove
TreeRemoved(t, n, ancestor) ==
    [rebalanceAll(t, ancestor) EXCEPT !.nd = returnNode(@, n)]

TreeRemove(t, n) ==
    IF t.nd[n].left = 0 \/ t.nd[n].right = 0
    THEN TreeRemoved(removeSingle(t, n), n, t.nd[n].parent)
    ELSE TreeRemoved(removeDouble(t, n, leftMost(t.nd, t.nd[n].right)), n,
                     IF t.nd[leftMost(t.nd, t.nd[n].right)].parent = n
                     THEN leftMost(t.nd, t.nd[n].right)
                     ELSE t.nd[leftMost(t.nd, t.nd[n].right)].parent)

\* the nodes met by walking Next from n, at most k of them
RECURSIVE walkFrom(_, _, _)
walkFrom(nd, n, k) ==
    IF n = 0 \/ k = 0 THEN <<>>
    ELSE <<n>> \o walkFrom(nd, TreeNext(nd, n), k - 1)

\* the walk from First: it is cut off one node after the number of nodes
TreeWalk(t) == walkFrom(t.nd, TreeFirst(t), Len(t.nd) + 1)

TreeNodes(t) == {n \in DOMAIN t.nd : t.nd[n].pt # 0}

TreeOf(s) == [root |-> s.root, nd |-> s.nd, panic |-> s.panic]

TreeState(t) ==
    [pc |-> "tree", root |-> t.root, nd |-> t.nd, panic |-> t.panic]

InitTree ==
    /\ probe = [op |-> "Init", n |-> 0, item |-> 0, before |-> <<>>,
                root |-> 0]
    /\ sw = TreeState(EmptyTree)
    /\ out = NoOut

\* Insert of an endpoint that has no node, or of one that the search finds
InsertItem ==
    /\ sw.pc = "tree" /\ sw.panic = ""
    /\ \E item \in TreeItems :
          /\ item \in TreeNodes(TreeOf(sw))
                => treeFind(TreePoints, sw.nd, item, sw.root).n = item
          /\ sw' = TreeState(TreeInsert(TreePoints, TreeOf(sw), item))
          /\ probe' = [op |-> "Insert", n |-> 0, item |-> item,
                       before |-> TreeWalk(TreeOf(sw)), root |-> sw.root]
    /\ UNCHANGED out

\* InsertAfter of an endpoint that has no node, after any node or nil
InsertAfterNode ==
    /\ sw.pc = "tree" /\ sw.panic = ""
    /\ \E item \in TreeItems \ TreeNodes(TreeOf(sw)) :
          \E n \in TreeNodes(TreeOf(sw)) \cup {0} :
              /\ sw' = TreeState(TreeInsertAfter(TreeOf(sw), n, item))
              /\ probe' = [op |-> "InsertAfter", n |-> n, item |-> item,
                           before |-> TreeWalk(TreeOf(sw)), root |-> sw.root]
    /\ UNCHANGED out

RemoveNode ==
    /\ sw.pc = "tree" /\ sw.panic = ""
    /\ \E n \in TreeNodes(TreeOf(sw)) :
          /\ sw' = TreeState(TreeRemove(TreeOf(sw), n))
          /\ probe' = [op |-> "Remove", n |-> n, item |-> sw.nd[n].pt,
                       before |-> TreeWalk(TreeOf(sw)), root |-> sw.root]
    /\ UNCHANGED out

NextTree == InsertItem \/ InsertAfterNode \/ RemoveNode

SpecTree == InitTree /\ [][NextTree]_vars

(***************************************************************************)
(* AddPathEndpoints on its own: a path of a MoveTo and at most MaxCmds     *)
(* further commands, among them curves and commands with coordinates that  *)
(* are no numbers, is added to a queue that is empty or holds the          *)
(* endpoints of one segment.                                               *)
(***************************************************************************)
MaxCmds == 2

InputCoords ==
    {Pt(0, 0), Pt(GridEps, 0), Pt(GridEps, GridEps), Pt(NaN, 0),
     Pt(GridEps, Inf), Pt(0 - Inf, 0)}

InputCmds ==
    {Cmd(c, z.X, z.Y) : c \in {LineToCmd, CloseCmd, QuadToCmd}, z \in InputCoords}

RECURSIVE CmdSeqs(_)
CmdSeqs(k) ==
    IF k = 0 THEN {<< >>}
    ELSE CmdSeqs(k - 1)
             \cup {Append(q, c) : q \in CmdSeqs(k - 1), c \in InputCmds}

InputPaths ==
    {<<Cmd(MoveToCmd, z.X, z.Y)>> \o q : z \in InputCoords, q \in CmdSeqs(MaxCmds)}

\* the queue before the call: empty, or with the endpoints of one segment
InputQueues ==
    {EmptyState(opSettle, NonZero),
     AddPathEndpoints(EmptyState(opSettle, NonZero),
                      <<Cmd(MoveToCmd, 0, GridEps),
                        Cmd(LineToCmd, GridEps, GridEps)>>, 0, FALSE).st}

InitInput ==
    /\ probe = [op |-> "none"]
    /\ sw \in {[st EXCEPT !.pc = "input"] : st \in InputQueues}
    /\ out = NoOut

\* q.AddPathEndpoints(p, seg, clipping); the panic ends the call
AddPath ==
    /\ sw.pc = "input"
    /\ \E p \in InputPaths, clipping \in BOOLEAN :
           /\ probe' = [op |-> "AddPathEndpoints", p |-> p,
                        clipping |-> clipping, queue |-> sw.queue,
                        taken |-> Len(sw.pts)]
           /\ sw' = [AddPathEndpoints(sw, p, Len(sw.queue) \div 2, clipping).st
                        EXCEPT !.pc = "added"]
    /\ UNCHANGED out

NextInput == AddPath

SpecInput == InitInput /\ [][NextInput]_vars

(***************************************************************************)
(* addIntersections after the intersection is computed: the segments a     *)
(* from (0, 0) to (MaxClamp, MaxClamp) and b from (0, MaxClamp) to         *)
(* (MaxClamp, 0) are split at a point z that rounding may have placed      *)
(* anywhere near them, while the event at e is processed.                  *)
(***************************************************************************)
MaxClamp == 6

\* the points for z and e: inside the box of the segments and right of it
ClampPoints == {Pt(x, y) : x \in 1..MaxClamp + 1, y \in 1..MaxClamp - 1}

\* the queue holds the endpoints 1, 2 of a and 3, 4 of b
ClampState ==
    AddPathEndpoints(
        AddPathEndpoints(EmptyState(opAND, NonZero),
                         <<Cmd(MoveToCmd, 0, 0),
                           Cmd(LineToCmd, MaxClamp, MaxClamp)>>, 0, FALSE).st,
        <<Cmd(MoveToCmd, 0, MaxClamp), Cmd(LineToCmd, MaxClamp, 0)>>,
        0, TRUE).st

InitClamp ==
    /\ probe \in {[op |-> "addIntersections", z |-> z,
                    event |-> [X |-> e.X, Y |-> e.Y, left |-> left]] :
                      z \in ClampPoints, e \in ClampPoints, left \in BOOLEAN}
    /\ sw = [ClampState EXCEPT !.pc = "clamp"]
    /\ out = NoOut

\* addIntersections from line 1199 on, with zs = <<z>>
SplitAtZ ==
    /\ sw.pc = "clamp"
    /\ sw' = [intersected(sw, probe.event, <<probe.z>>, 1, 3).st
                 EXCEPT !.pc = "clamped"]
    /\ UNCHANGED <<probe, out>>

NextClamp == SplitAtZ

SpecClamp == InitClamp /\ [][NextClamp]_vars

(***************************************************************************)
(* mergeOverlapping on its own: up to MaxGroup segments with the same      *)
(* endpoints lie on top of each other, above nothing or above one other    *)
(* segment; their sweep fields are computed from bottom to top, and then   *)
(* mergeOverlapping is called for their left endpoints in any order, at    *)
(* most MaxCalls times.  Segment i has the endpoints 2i - 1 (left) and 2i. *)
(***************************************************************************)
MaxGroup == 3
MaxCalls == 4

\* the two endpoints of a segment from (0, y) to (2 GridEps, y)
mergeSegment(i, y, k) ==
    <<[ZeroSweepPoint EXCEPT !.X = 0, !.Y = y, !.other = 2 * i,
                             !.clipping = k.clipping,
                             !.increasing = k.increasing, !.left = TRUE],
      [ZeroSweepPoint EXCEPT !.X = 2 * GridEps, !.Y = y, !.other = 2 * i - 1,
                             !.clipping = k.clipping,
                             !.increasing = k.increasing, !.left = FALSE]>>

\* the input and the direction of one segment
MergeKinds == [clipping : BOOLEAN, increasing : BOOLEAN]

\* the kinds of the segments from bottom to top: below tells whether the
\* first of them is a segment of its own, below the others
RECURSIVE KindSeqs(_)
KindSeqs(n) ==
    IF n = 0 THEN {<< >>}
    ELSE {Append(q, k) : q \in KindSeqs(n - 1), k \in MergeKinds}

MergeInputs ==
    {[op |-> op, fillRule |-> f, kinds |-> ks, below |-> b] :
        op \in pathOp, f \in FillRule, b \in BOOLEAN,
        ks \in UNION {KindSeqs(n) : n \in 2..MaxGroup}}

RECURSIVE mergePoints(_, _)
mergePoints(in, i) ==
    IF i > Len(in.kinds) THEN << >>
    ELSE mergeSegment(i, IF in.below /\ i = 1 THEN 0 ELSE GridEps, in.kinds[i])
             \o mergePoints(in, i + 1)

\* the sweep fields of the left endpoints, each computed above the one before
RECURSIVE mergeFields(_, _, _)
mergeFields(pts, in, i) ==
    IF i > Len(in.kinds) THEN pts
    ELSE mergeFields(computeSweepFields(pts, 2 * i - 1,
                                        IF i = 1 THEN 0 ELSE 2 * i - 3,
                                        in.op, in.fillRule), in, i + 1)

\* the endpoints of the input in, before mergeOverlapping is called
MergeStart(in) == mergeFields(mergePoints(in, 1), in, 1)

InitMerge ==
    /\ probe \in MergeInputs
    /\ sw = [pc |-> "merge", calls |-> << >>,
             pts |-> MergeStart(probe), before |-> MergeStart(probe)]
    /\ out = NoOut

\* event.other.mergeOverlapping(op, fillRule) for the right endpoint of
\* segment i
MergeCall ==
    /\ sw.pc = "merge" /\ Len(sw.calls) < MaxCalls
    /\ \E i \in 1..Len(probe.kinds) :
           sw' = [sw EXCEPT !.calls = Append(@, i),
                            !.before = sw.pts,
                            !.pts = mergeOverlapping(@, 2 * i - 1, probe.op,
                                                     probe.fillRule)]
    /\ UNCHANGED <<probe, out>>

NextMerge == MergeCall

SpecMerge == InitMerge /\ [][NextMerge]_vars

(***************************************************************************)
(* Two calls that share the pools.  The pools are process-wide, and a      *)
(* second call meets the first one only there: beside the call in sw,      *)
(* another call takes objects out of the pools (newNode, SplitAt,          *)
(* toleranceSquares.Add) and puts them back (returnNode, the end of        *)
(* BuildPath).  out.held are the objects the other call holds, at most     *)
(* MaxHeld at a time: <<"node", n>>, <<"point", e>> or <<"square", j>>.    *)
(***************************************************************************)
MaxHeld == 1

\* what the call in st has put into the pools
PutNodes(st) == {<<"node", n>> : n \in st.free}

PutPoints(st) ==
    {<<"point", e>> : e \in {d \in 1..Len(st.pts) : st.pts[d].pooled > 0}}

PutSquares(st) ==
    {<<"square", j>> : j \in {k \in 1..Len(st.squares) : st.squares[k].pooled}}

InitShared ==
    /\ probe \in AgainCalls
    /\ sw = [SweepBegin(probe.ps, probe.qs, probe.op, probe.fillRule)
                EXCEPT !.reuse = TRUE]
    /\ out = [held |-> {}]

\* sync.Pool.Get in the other call: any object that is in a pool
OtherGet ==
    /\ Cardinality(out.held) < MaxHeld
    /\ \E o \in (PutNodes(sw) \cup PutPoints(sw) \cup PutSquares(sw))
                    \ out.held :
           /\ out' = [out EXCEPT !.held = @ \cup {o}]
           /\ sw' = IF o[1] = "node" THEN [sw EXCEPT !.free = @ \ {o[2]}]
                    ELSE sw
    /\ UNCHANGED probe

\* sync.Pool.Put in the other call
OtherPut ==
    /\ \E o \in out.held :
           /\ out' = [out EXCEPT !.held = @ \ {o}]
           /\ sw' = IF o[1] = "node" THEN [sw EXCEPT !.free = @ \cup {o[2]}]
                    ELSE sw
    /\ UNCHANGED probe

NextShared == Next \/ OtherGet \/ OtherPut

SpecShared == InitShared /\ [][NextShared]_vars

(***************************************************************************)
(* Claims about InResult.                                                  *)
(***************************************************************************)
\* the counts of the subject and of the clipping input below and above a segment
SubjectBelow(s) == IF s.clipping THEN s.otherWindings ELSE s.windings
SubjectAbove(s) ==
    IF s.clipping THEN s.otherWindings + s.otherSelfWindings
    ELSE s.windings + s.selfWindings
ClippingBelow(s) == IF s.clipping THEN s.windings ELSE s.otherWindings
ClippingAbove(s) ==
    IF s.clipping THEN s.windings + s.selfWindings
    ELSE s.otherWindings + s.otherSelfWindings

\* whether the result of op is filled where the subject fills (a) and the
\* clipping input fills (b)
ResultFills(op, a, b) ==
    CASE op = opSettle -> a
      [] op = opAND -> a /\ b
      [] op = opOR -> a \/ b
      [] op = opNOT -> a /\ ~b
      [] op = opXOR -> (a /\ ~b) \/ (~a /\ b)
      [] op = opDIV -> a

DecisionTable(s, op, fillRule) ==
    LET A == Fills(fillRule, SubjectBelow(s))
        A2 == Fills(fillRule, SubjectAbove(s))
        B == Fills(fillRule, ClippingBelow(s))
        B2 == Fills(fillRule, ClippingAbove(s))
    IN  IF op = opDIV
        THEN Cardinality({side \in {"below", "above"} :
                 IF side = "below" THEN A ELSE A2})
        ELSE IF ResultFills(op, A, B) # ResultFills(op, A2, B2) THEN 1 ELSE 0

Evaluated == out # NoOut

\* C1: for a closed segment InResult returns the value of the decision
\* table: 1 iff the filling of the result of the operation differs between
\* the two sides of the segment (A # A' for Settle, (A and B) # (A' and B')
\* for AND, and so on), else 0; for DIV the number of sides (0, 1 or 2) on
\* which the subject fills.
C1_ClosedDecisionTable ==
    (Evaluated /\ "op" \in DOMAIN probe /\ ~probe.open)
        => out.inResult = DecisionTable(probe, probe.op, probe.fillRule)

\* a closed clipping segment under XOR with the fill rule EvenOdd: only the
\* clipping input changes its filling across it, so it is kept
C1_Witness ==
    /\ Evaluated /\ "op" \in DOMAIN probe
    /\ ~probe.open /\ probe.clipping /\ probe.op = opXOR
    /\ probe.fillRule = EvenOdd
    /\ probe.windings = 1 /\ probe.selfWindings = 1
    /\ probe.otherWindings = 0 /\ probe.otherSelfWindings = 0
    /\ out.inResult = 1

\* C2: for a segment of an open contour InResult returns 1 for Settle, OR
\* and DIV whatever the windings; for AND 1 iff the clipping input fills
\* below or above the segment; for NOT and XOR 1 iff the clipping input does
\* not fill below or does not fill above; otherwise 0.
C2_OpenTable ==
    (Evaluated /\ "op" \in DOMAIN probe /\ probe.open)
        => LET B == Fills(probe.fillRule, ClippingBelow(probe))
               B2 == Fills(probe.fillRule, ClippingAbove(probe))
               kept == \/ probe.op \in {opSettle, opOR, opDIV}
                       \/ probe.op = opAND /\ (B \/ B2)
                       \/ probe.op \in {opNOT, opXOR} /\ (~B \/ ~B2)
           IN  out.inResult = IF kept THEN 1 ELSE 0

\* an open subject segment under AND that lies outside the clipping input
C2_Witness ==
    /\ Evaluated /\ "op" \in DOMAIN probe
    /\ probe.open /\ ~probe.clipping /\ probe.op = opAND
    /\ probe.otherWindings = 0 /\ probe.otherSelfWindings = 0
    /\ probe.windings = 1
    /\ out.inResult = 0

(***************************************************************************)
(* Claims about the relation predicates.                                   *)
(***************************************************************************)
\* whether the bit with value b (a power of two) is set in rel
HasBit(rel, b) == (rel \div b) % 2 = 1

RelEvaluated == out # NoOut /\ "rel" \in DOMAIN probe

\* C8: for each of the 256 relation bytes every predicate is its bit-mask
\* formula, spelled out per bit: Disjoint iff none of II, IB, BI, BB is set;
\* Intersects iff one of them is; Equals iff II is set and IE, BE, EI, EB
\* are clear; Touches iff II is clear and one of IB, BI, BB is set; Contains
\* iff Intersects and EI, EB are clear; Overlaps iff II, IE and EI are all
\* set; and Disjoint is the negation of Intersects.
C8_PredicateMasks ==
    RelEvaluated =>
        LET r == probe.rel
            common == \E b \in {relII, relIB, relBI, relBB} : HasBit(r, b)
        IN  /\ out.Disjoint = ~common
            /\ out.Intersects = common
            /\ out.Equals = (/\ HasBit(r, relII)
                             /\ \A b \in {relIE, relBE, relEI, relEB} :
                                    ~HasBit(r, b))
            /\ out.Touches = (/\ ~HasBit(r, relII)
                              /\ \E b \in {relIB, relBI, relBB} : HasBit(r, b))
            /\ out.Contains = (/\ common
                               /\ ~HasBit(r, relEI) /\ ~HasBit(r, relEB))
            /\ out.Overlaps = (\A b \in {relII, relIE, relEI} : HasBit(r, b))
            /\ out.Disjoint = ~out.Intersects

\* the byte of two shapes that only share boundary points: Touches and
\* Intersects, not Disjoint
C8_Witness ==
    /\ RelEvaluated
    /\ probe.rel = relBB + relIE + relBE + relEI + relEB
    /\ out.Touches /\ out.Intersects /\ ~out.Disjoint /\ ~out.Overlaps

\* C9: the predicates are mutually consistent for every byte: Equals
\* implies Contains and Within, and Overlaps excludes Equals, Contains,
\* Within and Touches.
C9_PredicatesConsistent ==
    RelEvaluated =>
        /\ out.Equals => (out.Contains /\ out.Within)
        /\ out.Overlaps =>
              ~(out.Equals \/ out.Contains \/ out.Within \/ out.Touches)

\* the byte of two equal shapes (II and BB only) and its predicates
C9_Witness ==
    /\ RelEvaluated
    /\ probe.rel = relII + relBB
    /\ out.Equals /\ out.Contains /\ out.Within /\ ~out.Overlaps

(***************************************************************************)
(* Claims about the result of bentleyOttmann.                              *)
(***************************************************************************)
\* the call has returned
Completed == sw.pc = "done" /\ sw.panic = ""

\* the loop over the columns is over and no ring is built yet
SweepEnded ==
    /\ sw.pc = "build" /\ sw.panic = ""
    /\ sw.sq = 1 /\ sw.ev = 1 /\ Len(sw.Rs) = sw.settled

\* the left endpoints of the segments selected for the result
SelectedEvents(st) ==
    {e \in UNION {{st.squares[j].Events[k] :
                      k \in 1..Len(st.squares[j].Events)} :
                  j \in 1..Len(st.squares)} :
        st.pts[e].left /\ 0 < st.pts[e].inResult}

\* the segments selected for the result, each as its two endpoints
Selected(st) ==
    {<<PointOf(st.pts[e]), PointOf(st.pts[st.pts[e].other])>> :
        e \in SelectedEvents(st)}

\* the contours of a result, whatever their order
Rings(Rs) ==
    UNION {{Rs[i][k] : k \in 1..Len(Rs[i])} : i \in 1..Len(Rs)}

\* C3: And, Or and Xor are symmetric in their operands, an empty operand
\* included: the sweep of op(p, q) selects the same segments as the sweep
\* of op(q, p), and both calls return the same contours.
C3_Symmetric ==
    (probe.op \in {opAND, opOR, opXOR})
        => /\ SweepEnded =>
                Selected(sw) = Selected(RunSweep(SweepBegin(
                    probe.qs, probe.ps, probe.op, probe.fillRule)))
           /\ Completed =>
                LET r == bentleyOttmann(probe.qs, probe.ps, probe.op,
                                        probe.fillRule)
                IN  r.panic = "" /\ Rings(r.Rs) = Rings(sw.Rs)

\* the difference of two shapes that differ, one way round: two contours
C3_Witness ==
    /\ Completed /\ probe.op = opXOR
    /\ ~PathsEmpty(probe.ps) /\ ~PathsEmpty(probe.qs)
    /\ probe.ps # probe.qs
    /\ Len(sw.Rs) = 2 /\ Len(sw.pts) > 16

\* the sides of the polygon p as segments from left to right
Edges(p) ==
    LET v == Vertices(p)
        w(i) == v[(i % Len(v)) + 1]
    IN  {IF PointLess(v[i], w(i)) THEN <<v[i], w(i)>> ELSE <<w(i), v[i]>> :
            i \in 1..Len(v)}

\* twice the signed area of a ring: positive when counter-clockwise
RECURSIVE AreaFrom(_, _)
AreaFrom(r, i) ==
    IF i > Len(r) THEN 0
    ELSE PerpDot(r[i].X, r[i].Y, r[(i % Len(r)) + 1].X, r[(i % Len(r)) + 1].Y)
            + AreaFrom(r, i + 1)

Area2(r) == AreaFrom(r, 1)

\* the outline of the polygon p, which starts at its leftmost corner,
\* counter-clockwise
Outline(p) ==
    IF Area2(Vertices(p)) > 0 THEN Vertices(p) ELSE ReverseRing(Vertices(p))

SamePolygon ==
    /\ probe.op # opSettle /\ probe.ps = probe.qs /\ ~PathsEmpty(probe.ps)

\* C4: when p and q are the same closed polygon, AND and OR select exactly
\* one copy of each side of p and return p, and NOT and XOR select no
\* segment and return nothing.
C4_SamePolygon ==
    SamePolygon =>
        /\ (SweepEnded /\ probe.op \in {opAND, opOR}) =>
              /\ Selected(sw) = Edges(probe.ps[1])
              /\ Cardinality(SelectedEvents(sw)) = Cardinality(Selected(sw))
        /\ (SweepEnded /\ probe.op \in {opNOT, opXOR}) => Selected(sw) = {}
        /\ (Completed /\ probe.op \in {opAND, opOR}) =>
              sw.Rs = <<<<Outline(probe.ps[1])>>>>
        /\ (Completed /\ probe.op \in {opNOT, opXOR}) => sw.Rs = <<>>

\* the intersection of a clockwise triangle with itself is returned
C4_Witness ==
    /\ Completed /\ SamePolygon /\ probe.op = opAND
    /\ Area2(Vertices(probe.ps[1])) < 0
    /\ Len(sw.Rs) = 1 /\ Len(sw.Rs[1][1]) = 3

\* the corners of a ring and the middles of its sides, in twice their
\* coordinates
Doubled(r) ==
    {Pt(2 * r[i].X, 2 * r[i].Y) : i \in 1..Len(r)}
    \cup {Pt(r[i].X + r[(i % Len(r)) + 1].X, r[i].Y + r[(i % Len(r)) + 1].Y) :
            i \in 1..Len(r)}

\* P, in twice its coordinates, lies on the side from a to b
OnSide(P, a, b) ==
    /\ PerpDot(b.X - a.X, b.Y - a.Y, P.X - 2 * a.X, P.Y - 2 * a.Y) = 0
    /\ 2 * Min(a.X, b.X) <= P.X /\ P.X <= 2 * Max(a.X, b.X)
    /\ 2 * Min(a.Y, b.Y) <= P.Y /\ P.Y <= 2 * Max(a.Y, b.Y)

\* the ray from P to the right crosses the side from a to b
CrossesRay(P, a, b) ==
    LET d == PerpDot(b.X - a.X, b.Y - a.Y, P.X - 2 * a.X, P.Y - 2 * a.Y)
    IN  \/ 2 * a.Y <= P.Y /\ P.Y < 2 * b.Y /\ d > 0
        \/ 2 * b.Y <= P.Y /\ P.Y < 2 * a.Y /\ d < 0

\* P lies in the ring r or on it
InOrOn(P, r) ==
    \/ \E i \in 1..Len(r) : OnSide(P, r[i], r[(i % Len(r)) + 1])
    \/ Cardinality({i \in 1..Len(r) :
                       CrossesRay(P, r[i], r[(i % Len(r)) + 1])}) % 2 = 1

\* the ring r lies in the ring s
Inside(r, s) == r # s /\ \A P \in Doubled(r) : InOrOn(P, s)

\* the number of contours of the result around the ring r
Nesting(r, Rs) == Cardinality({s \in Rings(Rs) : Inside(r, s)})

C6_OuterRingsOrdered ==
    Completed =>
        \A i \in 1..Len(sw.Rs) : \A j \in 1..Len(sw.Rs) :
            i < j => ~PointLess(sw.Rs[j][1][1], sw.Rs[i][1][1])

\* the contours of Path.Settle applied to the result of the call
SettledAgain ==
    Rings(SettleRun(ToPath(MergePaths(sw.Rs, 1), 1), probe.fillRule).Rs)

\* C7: Settle is idempotent up to the order of the contours: settling the
\* result of Settle again, with the same fill rule, yields the same
\* contours.
C7_SettleIdempotent ==
    (Completed /\ probe.op = opSettle) => SettledAgain = Rings(sw.Rs)

\* C10: Path.Overlaps is true whenever the interiors of p and q have a point
\* in common (the bit II of their relation), so also when the paths are
\* equal and when one contains the other.
C10_OverlapsWhenInteriorsMeet ==
    RelEvaluated =>
        /\ HasBit(probe.rel, relII) => out.Overlaps
        /\ out.Equals => out.Overlaps
        /\ (out.Contains /\ HasBit(probe.rel, relII)) => out.Overlaps

(***************************************************************************)
(* Claims about relate.                                                    *)
(***************************************************************************)
\* relate has returned
Related == sw.pc = "done" /\ sw.panic = "" /\ "rel" \in DOMAIN out

\* the operand is one closed polygon
OnePolygon(ps) == Len(ps) = 1 /\ Closed(ps[1])

\* C11: for two identical closed polygons relate returns a relation for
\* which Equals() holds (II set; IE, BE, EI and EB clear) and no
\* intersection point.
C11_EqualPolygons ==
    (Related /\ OnePolygon(probe.ps) /\ probe.qs = probe.ps)
        => /\ Equals(out.rel)
           /\ HasBit(out.rel, relII)
           /\ \A b \in {relIE, relBE, relEI, relEB} : ~HasBit(out.rel, b)
           /\ out.zs = <<>>

\* the square of side 2 GridEps related with itself
C11_Witness ==
    /\ Related
    /\ probe.ps = <<Square(0, 0, 2 * GridEps, 2 * GridEps)>>
    /\ probe.qs = probe.ps
    /\ out.rel = relII + relBB
    /\ Len(sw.pts) >= 16

\* the corners of the polygon v turn one way only
Convex(v) ==
    \/ \A i \in 1..Len(v) :
          PerpDot(v[(i % Len(v)) + 1].X - v[i].X,
                  v[(i % Len(v)) + 1].Y - v[i].Y,
                  v[((i + 1) % Len(v)) + 1].X - v[i].X,
                  v[((i + 1) % Len(v)) + 1].Y - v[i].Y) > 0
    \/ \A i \in 1..Len(v) :
          PerpDot(v[(i % Len(v)) + 1].X - v[i].X,
                  v[(i % Len(v)) + 1].Y - v[i].Y,
                  v[((i + 1) % Len(v)) + 1].X - v[i].X,
                  v[((i + 1) % Len(v)) + 1].Y - v[i].Y) < 0

\* the side of the line through the segment e on which the point c lies
SideOf(e, c) ==
    Sign(PerpDot(e[2].X - e[1].X, e[2].Y - e[1].Y,
                 c.X - e[1].X, c.Y - e[1].Y))

\* the convex polygons p and q have the side e in common and lie on
\* different sides of it: they share that edge and nothing else
ShareEdge(p, q, e) ==
    /\ Convex(Vertices(p)) /\ Convex(Vertices(q))
    /\ Edges(p) \cap Edges(q) = {e}
    /\ \E d \in {0 - 1, 1} :
          /\ \A i \in 1..Len(Vertices(p)) : SideOf(e, Vertices(p)[i]) # d
          /\ \A i \in 1..Len(Vertices(q)) : SideOf(e, Vertices(q)[i]) # 0 - d

\* C12: for two closed polygons that share exactly one boundary edge and
\* whose interiors are disjoint, relate yields Touches() and not Overlaps()
\* (II clear, BB set), and the intersections are exactly the two endpoints
\* of the shared edge.
C12_SharedEdge ==
    (Related /\ OnePolygon(probe.ps) /\ OnePolygon(probe.qs))
        => \A e \in Edges(probe.ps[1]) :
              ShareEdge(probe.ps[1], probe.qs[1], e)
                 => /\ Touches(out.rel) /\ ~Overlaps(out.rel)
                    /\ ~HasBit(out.rel, relII) /\ HasBit(out.rel, relBB)
                    /\ out.zs = <<e[1], e[2]>>

\* the points of zs are strictly increasing from left to right and then
\* from bottom to top
Increasing(zs) == \A i \in 1..(Len(zs) - 1) : PointLess(zs[i], zs[i + 1])

\* C13: at every step of relate, and in the list it returns, the collected
\* intersection points are strictly increasing in (x, then y) order, no
\* point listed twice.
C13_IntersectionsSorted ==
    /\ "zs" \in DOMAIN sw => Increasing(sw.zs)
    /\ "zs" \in DOMAIN out => Increasing(out.zs)

(***************************************************************************)
(* Claims about the queue.                                                 *)
(***************************************************************************)
\* the number of times each element occurs in the array q
BagOf(q) == [x \in InQueue(q) |-> Cardinality({i \in DOMAIN q : q[i] = x})]

\* no element of the heap q precedes its parent
HeapOrdered(pts, q) ==
    \A j \in 1..(Len(q) - 1) : ~LessH(pts, q[j + 1], q[((j - 1) \div 2) + 1])

\* no element of q precedes x
NonePrecedes(pts, q, x) == \A k \in DOMAIN q : ~LessH(pts, q[k], x)

\* C14: the queue is a min-heap under LessH: after Init on any contents
\* and any sequence of Push, Pop and Fix no element precedes its parent;
\* Top and Pop return an element that no queued element precedes; Push
\* adds exactly the pushed element and Pop removes exactly the returned
\* one, the multiset of the other elements unchanged.
C14_MinHeap ==
    sw.pc = "heap" =>
        /\ HeapOrdered(sw.pts, sw.queue)
        /\ probe.op \in {"Top", "Pop"} =>
              /\ probe.item \in InQueue(probe.before)
              /\ NonePrecedes(sw.pts, probe.before, probe.item)
        /\ probe.op = "Top" => sw.queue = probe.before
        /\ probe.op = "Push" =>
              BagOf(sw.queue) = BagOf(Append(probe.before, probe.item))
        /\ probe.op = "Pop" =>
              BagOf(probe.before) = BagOf(Append(sw.queue, probe.item))
        /\ probe.op \in {"Init", "Fix"} =>
              BagOf(sw.queue) = BagOf(probe.before)

\* Fix of a full queue, after its first element was given a value that
\* sank to the bottom
C14_Witness ==
    /\ sw.pc = "heap" /\ probe.op = "Fix"
    /\ Len(sw.queue) = MaxQueue
    /\ ~HeapOrdered(sw.pts, probe.before)
    /\ sw.queue[1] # probe.before[1]
    /\ sw.queue[MaxQueue] = probe.item

(***************************************************************************)
(* Claims about the comparators.                                           *)
(***************************************************************************)
\* the comparators were applied to the endpoints a and b
CmpDone == sw.pc = "done" /\ "CompareH" \in DOMAIN out

CmpA == sw.pts[sw.a]
CmpB == sw.pts[sw.b]

\* C15: the horizontal order is smaller x first, then smaller y, then a
\* right endpoint before a left endpoint at the same position, then the
\* tangent comparison; LessH(a,b) iff CompareH(a,b) < 0, and
\* CompareH(a,b) = -CompareH(b,a).
C15_HorizontalOrder ==
    CmpDone =>
        /\ out.LessH[1] <=>
              IF CmpA.X # CmpB.X THEN CmpA.X < CmpB.X
              ELSE IF CmpA.Y # CmpB.Y THEN CmpA.Y < CmpB.Y
              ELSE IF CmpA.left # CmpB.left THEN ~CmpA.left
              ELSE out.compareTangentsV[1] < 0
        /\ out.LessH[1] <=> (out.CompareH[1] < 0)
        /\ out.LessH[2] <=> (out.CompareH[2] < 0)
        /\ out.CompareH[1] = 0 - out.CompareH[2]

\* two left endpoints at one point whose segments differ in direction: the
\* tangent comparison decides
C15_Witness ==
    /\ CmpDone /\ Coincident(CmpA, CmpB) /\ CmpA.left
    /\ ~CmpA.vertical /\ ~CmpB.vertical
    /\ PointOf(sw.pts[CmpA.other]) # PointOf(sw.pts[CmpB.other])
    /\ out.LessH = <<TRUE, FALSE>> /\ out.CompareH = <<0 - 1, 1>>

\* a and b are the left endpoints of two segments that coincide
SameSegment ==
    /\ CmpA.left /\ CmpB.left
    /\ PointOf(CmpA) = PointOf(CmpB)
    /\ PointOf(sw.pts[CmpA.other]) = PointOf(sw.pts[CmpB.other])

\* C16 as stated: when two segments coincide point-for-point the vertical
\* comparator orders the segment of the clipping input before the segment
\* of the subject input, and two such segments of the same input by lower
\* segment id first.
C16_ClippingFirst ==
    (CmpDone /\ SameSegment) =>
        /\ (CmpA.clipping /\ ~CmpB.clipping) => out.CompareV[1] < 0
        /\ (CmpA.clipping = CmpB.clipping /\ CmpA.segment < CmpB.segment)
              => out.CompareV[1] < 0

\* C16 amended: when two segments coincide point-for-point the vertical
\* comparator orders the segment of the subject input before the segment
\* of the clipping input, which lies on top, and two such segments of the
\* same input by lower segment id first.
C16_SubjectFirst ==
    (CmpDone /\ SameSegment) =>
        /\ (~CmpA.clipping /\ CmpB.clipping) =>
              out.CompareV = <<0 - 1, 1>>
        /\ (CmpA.clipping = CmpB.clipping /\ CmpA.segment < CmpB.segment)
              => out.CompareV = <<0 - 1, 1>>

\* a segment of the subject and the same segment of the clipping input
C16_Witness ==
    /\ CmpDone /\ SameSegment /\ ~CmpA.clipping /\ CmpB.clipping
    /\ out.CompareV[1] = 0 - 1

\* the comparison of the y of the other endpoints of a and b at a common x
\* on the side the segments extend to: -1 if the segment of a is the lower
\* one there, 1 if it is the upper one, 0 if they lie on one line
OtherCmp ==
    LET c == PerpDot(sw.pts[CmpA.other].X - CmpA.X,
                     sw.pts[CmpA.other].Y - CmpA.Y,
                     sw.pts[CmpB.other].X - CmpA.X,
                     sw.pts[CmpB.other].Y - CmpA.Y)
    IN  IF CmpA.left THEN 0 - Sign(c) ELSE Sign(c)

\* a and b are endpoints at one point of two segments that are not
\* vertical and not on one line
TangentCase ==
    /\ CmpDone /\ Coincident(CmpA, CmpB)
    /\ ~CmpA.vertical /\ ~CmpB.vertical
    /\ OtherCmp # 0

\* C17 as stated: when two non-vertical segments share an endpoint position
\* the tangent comparator compares the y of their other endpoints at the
\* common x and multiplies that comparison by -1 when the shared point is a
\* left endpoint and by +1 when it is a right endpoint.
C17_MinusAtLeft ==
    TangentCase =>
        out.compareTangentsV[1] = (IF CmpA.left THEN 0 - 1 ELSE 1) * OtherCmp

\* C17 amended: the comparison of the y of the other endpoints at the
\* common x, negative when the segment of a is the lower one, is
\* multiplied by +1 when the shared point is a left endpoint and by -1
\* when it is a right endpoint.
C17_PlusAtLeft ==
    TangentCase =>
        out.compareTangentsV[1] = (IF CmpA.left THEN 1 ELSE 0 - 1) * OtherCmp

\* two right endpoints at one point, the segment of a the lower one to
\* their left: it is ordered after the segment of b
C17_Witness ==
    /\ TangentCase /\ ~CmpA.left /\ OtherCmp = 0 - 1
    /\ out.compareTangentsV[1] = 1

(***************************************************************************)
(* Claims about the endpoints during a sweep.                              *)
(***************************************************************************)
\* the state is one of a call of bentleyOttmann or relate
Sweeping == "status" \in DOMAIN sw

\* the endpoints in the queue, in the status and in the tolerance squares
LiveEvents ==
    InQueue(sw.queue)
        \cup {sw.nodePt[sw.status[i]] : i \in DOMAIN sw.status}
        \cup (IF "squares" \in DOMAIN sw
              THEN UNION {InQueue(sw.squares[j].Events) :
                             j \in DOMAIN sw.squares}
              ELSE {})

\* C18: every endpoint e in the queue, in the status tree or in a tolerance
\* square satisfies e.other.other == e.
C18_OtherOfOther ==
    Sweeping =>
        \A e \in LiveEvents :
            /\ e \in 1..Len(sw.pts)
            /\ sw.pts[e].other \in 1..Len(sw.pts)
            /\ sw.pts[e].other # e
            /\ sw.pts[sw.pts[e].other].other = e

\* one of the halves of a split segment has become vertical, off the
\* coordinates of the input
C18_Witness ==
    /\ Sweeping
    /\ \E e \in LiveEvents :
          /\ ~sw.pts[e].left /\ sw.pts[e].vertical
          /\ sw.pts[e].X % GridEps # 0
          /\ sw.pts[sw.pts[e].other].other = e

\* C19: each segment has exactly one endpoint with left = true, and the
\* point of that endpoint precedes the point of the other endpoint in sweep
\* order (smaller x, or equal x and smaller y).
C19_LeftPrecedes ==
    Sweeping =>
        \A e \in LiveEvents :
            /\ sw.pts[e].left # sw.pts[sw.pts[e].other].left
            /\ sw.pts[e].left =>
                   PointLess(PointOf(sw.pts[e]),
                             PointOf(sw.pts[sw.pts[e].other]))
            /\ ~sw.pts[e].left =>
                   PointLess(PointOf(sw.pts[sw.pts[e].other]),
                             PointOf(sw.pts[e]))

\* the x of the vertical sides of the paths ps
VerticalsOf(ps) ==
    {e[1].X : e \in {d \in UNION {Edges(ps[k]) : k \in DOMAIN ps} :
                        d[1].X = d[2].X}}

\* a column was snapped to the grid and holds a vertical segment, where the
\* input has no vertical side
C19_Witness ==
    /\ Sweeping /\ "squares" \in DOMAIN sw
    /\ \E j \in DOMAIN sw.squares : \E i \in DOMAIN sw.squares[j].Events :
          LET E == sw.pts[sw.squares[j].Events[i]]
          IN  /\ E.left /\ E.vertical /\ E.square = j
              /\ E.X = sw.squares[j].X /\ E.Y = sw.squares[j].Y
              /\ E.Y < sw.pts[E.other].Y /\ sw.pts[E.other].X = E.X
              /\ E.X \notin VerticalsOf(probe.ps) \cup VerticalsOf(probe.qs)

InTree == sw.pc = "tree"

\* s with k put after n, or first when n is nil
PutAfter(s, n, k) ==
    IF n = 0 THEN <<k>> \o s
    ELSE LET i == CHOOSE j \in DOMAIN s : s[j] = n
         IN  SubSeq(s, 1, i) \o <<k>> \o SubSeq(s, i + 1, Len(s))

\* s without n
Without(s, n) == SelectSeq(s, LAMBDA x : x # n)

\* w lists every node of the tree once, ends at Last, and Prev walks it back
IsSequence(t, w) ==
    /\ Len(w) = Cardinality(TreeNodes(t))
    /\ {w[i] : i \in DOMAIN w} = TreeNodes(t)
    /\ TreeLast(t) = (IF w = <<>> THEN 0 ELSE w[Len(w)])
    /\ \A i \in DOMAIN w :
          /\ TreePrev(t.nd, w[i]) = (IF i = 1 THEN 0 ELSE w[i - 1])
          /\ TreeNext(t.nd, w[i]) = (IF i = Len(w) THEN 0 ELSE w[i + 1])

\* the walk after the operation of probe, from the walk before it
OrderKept(t, w) ==
    /\ probe.op = "InsertAfter"
          => /\ t.nd[probe.item].pt = probe.item
             /\ w = PutAfter(probe.before, probe.n, probe.item)
    /\ probe.op = "Remove" => w = Without(probe.before, probe.n)

\* C21: the status tree behaves as an ordered sequence: the walk with Next
\* from First visits every node exactly once and ends at Last, Prev is the
\* inverse of Next, InsertAfter(n, item) places item immediately after n (or
\* first when n is nil) and Remove(n) deletes exactly n, both without
\* changing the relative order of the other nodes.
C21_OrderedSequence ==
    InTree => /\ IsSequence(TreeOf(sw), TreeWalk(TreeOf(sw)))
              /\ OrderKept(TreeOf(sw), TreeWalk(TreeOf(sw)))

\* an endpoint was inserted after a node in the middle of a tree that is
\* full afterwards, and a rotation gave the tree another root
C21_Witness ==
    /\ InTree /\ probe.op = "InsertAfter" /\ probe.n # 0
    /\ Len(probe.before) = MaxTree - 1
    /\ probe.before[Len(probe.before)] # probe.n
    /\ sw.root # probe.root

\* the actual height of the tree below n; the recursion is cut off at depth k
RECURSIVE ActualHeight(_, _, _)
ActualHeight(nd, n, k) ==
    IF n = 0 \/ k = 0 THEN 0
    ELSE LET l == ActualHeight(nd, nd[n].left, k - 1)
             r == ActualHeight(nd, nd[n].right, k - 1)
         IN  (IF l < r THEN r ELSE l) + 1

HeightOf(t, n) == ActualHeight(t.nd, n, Len(t.nd))

Balanced(t) ==
    \A n \in TreeNodes(t) :
        /\ HeightOf(t, t.nd[n].left) - HeightOf(t, t.nd[n].right) \in {0 - 1, 0, 1}
        /\ n # t.root => t.nd[n].height = HeightOf(t, n)

Linked(t) ==
    /\ t.root # 0 => t.root \in TreeNodes(t) /\ t.nd[t.root].parent = 0
    /\ t.root = 0 => TreeNodes(t) = {}
    /\ \A n \in TreeNodes(t) :
          /\ t.nd[n].left # 0 => /\ t.nd[n].left \in TreeNodes(t)
                                 /\ t.nd[t.nd[n].left].parent = n
          /\ t.nd[n].right # 0 => /\ t.nd[n].right \in TreeNodes(t)
                                  /\ t.nd[t.nd[n].right].parent = n
          /\ t.nd[n].left # 0 => t.nd[n].left # t.nd[n].right
          /\ IF t.nd[n].parent = 0 THEN n = t.root
             ELSE n \in {t.nd[t.nd[n].parent].left, t.nd[t.nd[n].parent].right}

\* C22: the status tree stays height-balanced: after any sequence of Insert,
\* InsertAfter and Remove the actual heights of the two subtrees of every
\* node differ by at most 1, the stored height of every node but the root is
\* its actual height, parent and child pointers are mutually consistent, and
\* rebalance does not panic with "Tree too far out of shape!".
C22_Balanced ==
    InTree => /\ Balanced(TreeOf(sw))
              /\ Linked(TreeOf(sw))
              /\ sw.panic # "Tree too far out of shape!"

\* a node that is not the root was removed from a tree of MaxTree - 1 nodes,
\* and the rotations of rebalance gave the tree another root than it had
C22_Witness ==
    /\ InTree /\ probe.op = "Remove" /\ Len(probe.before) = MaxTree - 1
    /\ probe.n # probe.root /\ sw.root # probe.root

(***************************************************************************)
(* Claims about the course of a sweep.                                     *)
(***************************************************************************)
\* the loop over the events runs, in bentleyOttmann or in relate
InLoop == Sweeping /\ sw.pc \in {"column", "relate"}

\* an event is about to be taken from the queue
AtEvent ==
    /\ InLoop /\ Len(sw.queue) > 0
    /\ sw.pc = "column" => InColumn(sw)

TopEvent == QueueTop(sw.queue)

\* endpoint e is held by a node of the status of st
InStatus(st, e) ==
    /\ st.pts[e].node # 0
    /\ st.nodePt[st.pts[e].node] = e
    /\ \E i \in DOMAIN st.status : st.status[i] = st.pts[e].node

LifecyclePanics ==
    {"right-endpoint not part of status", "other endpoint already removed"}

\* a right endpoint is popped: its left endpoint is in the status and is
\* removed from it
RightLifecycle ==
    /\ InStatus(sw, sw.pts[TopEvent].other)
    /\ TopEvent \notin InQueue(sw'.queue)
    /\ sw'.pts[sw.pts[TopEvent].other].node = 0
    /\ sw.pts[sw.pts[TopEvent].other].node \notin InQueue(sw'.status)
    /\ Len(sw'.status) = Len(sw.status) - 1

\* a left endpoint is examined: it is not in the status, and it enters the
\* status when it is popped; otherwise the status keeps its nodes
LeftLifecycle ==
    /\ sw.pts[TopEvent].node = 0
    /\ IF TopEvent \in InQueue(sw'.queue)
       THEN sw'.status = sw.status /\ sw'.pts[TopEvent].node = 0
       ELSE /\ InStatus(sw', TopEvent)
            /\ Len(sw'.status) = Len(sw.status) + 1
            /\ \A i \in DOMAIN sw.status : sw.status[i] \in InQueue(sw'.status)

LifecycleStep ==
    /\ AtEvent /\ sw.pts[TopEvent].left => LeftLifecycle
    /\ AtEvent /\ ~sw.pts[TopEvent].left => RightLifecycle
    /\ InLoop /\ ~AtEvent /\ sw'.pc = sw.pc
          => InQueue(sw'.status) = InQueue(sw.status)
    /\ InLoop /\ Len(sw.queue) = 0 => sw.status = <<>>
    /\ sw'.panic \notin LifecyclePanics

\* C23: every segment follows the lifecycle queue -> status -> removed: a
\* left endpoint enters the status tree when it is popped and is not in it
\* before, the right endpoint is popped later while the left endpoint is
\* still in the status tree, and the left endpoint is removed then; neither
\* "right-endpoint not part of status" nor "other endpoint already removed"
\* is reached, and the status tree is empty when the queue runs empty.
C23_Lifecycle == [][LifecycleStep]_vars

\* the queue has run empty after the endpoints of at least four segments
\* went through the status
C23_Witness ==
    /\ InLoop /\ Len(sw.queue) = 0 /\ sw.status = <<>>
    /\ Len(sw.pts) >= 8
    /\ \A e \in 1..Len(sw.pts) : sw.pts[e].node = 0

\* C24: the sweep always terminates by emptying the queue: the loop over the
\* columns is never left, by the end of the sweep or of the call, while events
\* are still queued, also after a left event was re-examined and after the
\* loop of a column was entered again
C24_QueueEmptied == sw.pc # "column" => Len(sw.queue) = 0

(***************************************************************************)
(* Claims about the input of a call.                                       *)
(***************************************************************************)
\* C25: invalid input is rejected before any mutation: when AddPathEndpoints
\* fails because of a NaN or infinite coordinate or a command that is no line,
\* no endpoint was appended to the queue and no endpoint was taken from the
\* pool
C25_RejectedUnchanged ==
    sw.pc = "added" /\ sw.panic # ""
        => sw.queue = probe.queue /\ Len(sw.pts) = probe.taken

\* the commands of p are lines or closes and all its coordinates are numbers
FlatAndFinite(p) ==
    \A k \in 1..Len(p) :
        /\ k > 1 => p[k].cmd \in {LineToCmd, CloseCmd}
        /\ ~IsNaNOrInf(p[k].X) /\ ~IsNaNOrInf(p[k].Y)

\* p has a Close command whose target is not the start of p
CloseElsewhere(p) ==
    \E k \in 2..Len(p) :
        p[k].cmd = CloseCmd /\ (p[k].X # p[1].X \/ p[k].Y # p[1].Y)

\* C26: AddPathEndpoints fails with the invalid-close error for every path
\* with a Close command whose target differs from the start of the path, and
\* accepts every path whose Close commands all have the start as their target
C26_CloseChecked ==
    sw.pc = "added" /\ FlatAndFinite(probe.p)
        => (sw.panic = "invalid close command in path"
                <=> CloseElsewhere(probe.p))

(***************************************************************************)
(* Claims about the pool of endpoints.                                     *)
(***************************************************************************)
\* the endpoint e was put back into the pool
WasPut(e) == sw.pts[e].pooled > 0

\* e is in the event list of a square; of one that was not put back itself
InEvents(e) == \E j \in 1..Len(sw.squares) : Pos(sw.squares[j].Events, e) > 0

InLiveEvents(e) ==
    \E j \in 1..Len(sw.squares) :
        ~sw.squares[j].pooled /\ Pos(sw.squares[j].Events, e) > 0

\* the chain of prev that BuildPath follows from prev meets an endpoint that
\* was put back
RECURSIVE PutBelow(_, _)
PutBelow(pts, prev) ==
    IF prev = 0 THEN FALSE
    ELSE IF pts[prev].pooled > 0 THEN TRUE
    ELSE IF pts[prev].index = 0 THEN PutBelow(pts, pts[prev].prev)
    ELSE FALSE

SplitPoints == {PointOf(sw.pts[e]) : e \in 5..Len(sw.pts)}

C29_PoppedInOrder ==
    [][sw.pc \in {"column", "relate"} => ~PointLess(sw'.popped, sw.popped)]_vars

(***************************************************************************)
(* Claims about the tolerance squares.                                     *)
(***************************************************************************)
\* the number of squares whose columns are fully processed
Finished ==
    IF sw.pc = "column" THEN sw.n - 1
    ELSE IF sw.pc = "build" \/ (sw.pc = "done" /\ sw.panic = "")
    THEN Len(sw.squares)
    ELSE 0

\* C30: after a column is fully processed, also when its loop was entered
\* again, every endpoint listed in a square of the column lies at the centre
\* of the square, its square field is the index of the square in the list of
\* squares, and the two endpoints of its segment are not at the same point
C30_SquaresSnapped ==
    \A j \in 1..Finished :
        \A i \in 1..Len(sw.squares[j].Events) :
            LET e == sw.squares[j].Events[i]
            IN  /\ PointOf(sw.pts[e]) = Pt(sw.squares[j].X, sw.squares[j].Y)
                /\ sw.pts[e].square = j
                /\ PointOf(sw.pts[e]) # PointOf(sw.pts[sw.pts[e].other])

\* all columns are processed, one of them twice, and a square lists the
\* endpoints of four segments or more
C30_Witness ==
    /\ sw.pc = "build" /\ sw.reentries > 0
    /\ \E j \in 1..Len(sw.squares) : Len(sw.squares[j].Events) >= 4

(***************************************************************************)
(* Claims about mergeOverlapping on its own.                               *)
(***************************************************************************)
\* the segments of the input that have been handled
MergeCalled == {sw.calls[k] : k \in 1..Len(sw.calls)}

\* the windings, the self-windings and inResult of all endpoints
mergeView(pts) ==
    [e \in DOMAIN pts |->
        <<pts[e].windings, pts[e].selfWindings, pts[e].otherWindings,
          pts[e].otherSelfWindings, pts[e].inResult, pts[e].overlapped>>]

\* mergeOverlapping for the segments from i on, from bottom to top
RECURSIVE mergeUpwards(_, _, _)
mergeUpwards(pts, in, i) ==
    IF i > Len(in.kinds) THEN pts
    ELSE mergeUpwards(mergeOverlapping(pts, 2 * i - 1, in.op, in.fillRule),
                      in, i + 1)

\* C31: mergeOverlapping is idempotent and independent of the order: a call
\* for a left endpoint that was handled before changes no field, and once
\* all segments with the same endpoints have been handled their windings,
\* self-windings and inResult are those of handling them from bottom to top
C31_MergeOrderFree ==
    sw.pc = "merge" /\ Len(sw.calls) > 0 =>
        /\ (\E k \in 1..Len(sw.calls) - 1 : sw.calls[k] = sw.calls[Len(sw.calls)])
               => sw.pts = sw.before
        /\ MergeCalled = 1..Len(probe.kinds)
               => mergeView(sw.pts)
                      = mergeView(mergeUpwards(MergeStart(probe), probe, 1))

\* three segments on top of each other were handled from top to bottom, and
\* then the topmost one again
C31_Witness ==
    /\ sw.pc = "merge" /\ ~probe.below
    /\ sw.calls = <<3, 2, 1, 3>>
    /\ sw.pts[1].overlapped /\ sw.pts[3].overlapped
    /\ sw.pts[5].inResult # 0


\* the segments with the same endpoints, from bottom to top
MergeGroup == (IF probe.below THEN 2 ELSE 1)..Len(probe.kinds)

\* the sum of the self-windings that the segments from i on of the input
\* clipping had before any merge
RECURSIVE groupWindings(_, _, _)
groupWindings(start, clipping, i) ==
    IF i > Len(probe.kinds) THEN 0
    ELSE (IF i \in MergeGroup /\ start[2 * i - 1].clipping = clipping
          THEN start[2 * i - 1].selfWindings ELSE 0)
             + groupWindings(start, clipping, i + 1)

\* the segment of left endpoint e is switched off as a merged one
MergedAway(pts, e) ==
    /\ pts[e].overlapped
    /\ pts[e].inResult = 0 /\ pts[pts[e].other].inResult = 0
    /\ pts[e].windings = 0 /\ pts[e].otherWindings = 0
    /\ pts[e].selfWindings = 0 /\ pts[e].otherSelfWindings = 0

\* C32: after mergeOverlapping for the topmost segment s of a group with the
\* same endpoints, every segment merged into it has inResult 0 at both ends,
\* zero windings and overlapped set; s has, for each input, the sum of the
\* self-windings of the group, s.prev is the first segment below the group,
\* and inResult of s is computed anew from these fields
C32_MergedIntoTop ==
    sw.pc = "merge" /\ Len(sw.calls) > 0
                    /\ sw.calls[Len(sw.calls)] = Len(probe.kinds) =>
        LET s == 2 * Len(probe.kinds) - 1
            S == sw.pts[s]
        IN  /\ \A j \in MergeGroup \ {Len(probe.kinds)} :
                   MergedAway(sw.pts, 2 * j - 1)
            /\ ~S.overlapped
            /\ S.selfWindings
                   = groupWindings(MergeStart(probe), S.clipping, 1)
            /\ S.otherSelfWindings
                   = groupWindings(MergeStart(probe), ~S.clipping, 1)
            /\ S.prev = (IF probe.below THEN 1 ELSE 0)
            /\ S.inResult = InResult(S, probe.op, probe.fillRule)
            /\ sw.pts[S.other].inResult = S.inResult

\* the topmost of three segments of both inputs is handled first and is in
\* the result with the windings of both inputs
C32_Witness ==
    /\ sw.pc = "merge" /\ probe.below /\ Len(probe.kinds) = 3
    /\ sw.calls = <<3>>
    /\ probe.kinds[2].clipping # probe.kinds[3].clipping
    /\ sw.pts[5].otherSelfWindings # 0 /\ sw.pts[5].selfWindings # 0
    /\ sw.pts[5].inResult # 0 /\ sw.before[3].inResult # 0


(***************************************************************************)
(* Claims about the windings after a column.                               *)
(***************************************************************************)
\* the sum of the self-windings of the segments of the input clipping at the
\* positions below k of the status
RECURSIVE windingsBelow(_, _, _)
windingsBelow(st, clipping, k) ==
    IF k <= 1 THEN 0
    ELSE (IF st.pts[NodePoint(st, st.status[k - 1])].clipping = clipping
          THEN st.pts[NodePoint(st, st.status[k - 1])].selfWindings ELSE 0)
             + windingsBelow(st, clipping, k - 1)

\* the events of square j
EventsOf(st, j) == {st.squares[j].Events[i] : i \in 1..Len(st.squares[j].Events)}

\* the left endpoints of square j that have a node in the status
LeftInStatus(st, j) ==
    {e \in EventsOf(st, j) :
        /\ st.pts[e].left /\ st.pts[e].node # 0
        /\ Pos(st.status, st.pts[e].node) # 0
        /\ NodePoint(st, st.pts[e].node) = e}

\* the left endpoints of square j of vertical segments, which have no node,
\* that were not merged into another one
VerticalIn(st, j) ==
    {e \in EventsOf(st, j) :
        st.pts[e].left /\ st.pts[e].node = 0 /\ ~st.pts[e].overlapped}

\* the position in the status above which a vertical segment of square j
\* lies: above the segments that leave the square, or else above the first
\* segment below the square
TopOfSquare(st, j) ==
    IF LeftInStatus(st, j) # {}
    THEN SetMax({Pos(st.status, st.pts[e].node) : e \in LeftInStatus(st, j)})
    ELSE IF st.squares[j].Node = 0 THEN 0
    ELSE Pos(st.status, st.squares[j].Node)

\* the windings of e are those of the segments of the status below position k
WindingsOf(st, e, k) ==
    /\ st.pts[e].windings = windingsBelow(st, st.pts[e].clipping, k)
    /\ st.pts[e].otherWindings = windingsBelow(st, ~st.pts[e].clipping, k)

\* C33: when a column is finished, the windings of each of its left endpoints
\* are the sum of the self-windings of the segments of its own input below
\* it in the status, and otherWindings the same sum for the other input; a
\* vertical segment, which is not in the status, counts the segments up to
\* those that leave its square and no vertical segment
C33_WindingsBelow ==
    [][sw.pc = "column" /\ sw'.pc = "column" /\ sw.n < sw'.n
           => \A j \in sw.n..Len(sw'.squares) :
                  /\ \A e \in LeftInStatus(sw', j) :
                         WindingsOf(sw', e, Pos(sw'.status, sw'.pts[e].node))
                  /\ \A e \in VerticalIn(sw', j) :
                         WindingsOf(sw', e, TopOfSquare(sw', j) + 1)]_vars

\* a column is just finished in which a segment starts above segments of
\* both inputs, and a vertical segment starts above another one
C33_Witness ==
    /\ sw.pc = "column" /\ sw.n > 1 /\ Len(sw.squares) = sw.n - 1
    /\ \E j \in 1..Len(sw.squares) :
           /\ sw.squares[j].X = sw.squares[Len(sw.squares)].X
           /\ \E e \in LeftInStatus(sw, j) :
                  /\ sw.pts[e].windings # 0 /\ sw.pts[e].otherWindings # 0
                  /\ WindingsOf(sw, e, Pos(sw.status, sw.pts[e].node))


(***************************************************************************)
(* Claims about the building of the result.                                *)
(***************************************************************************)
\* the two ends of the segment of the left endpoint e
EndsOf(st, e) == {PointOf(st.pts[e]), PointOf(st.pts[st.pts[e].other])}

\* how often the ring r runs along a segment with the ends ends
RECURSIVE ringUses(_, _, _)
ringUses(r, ends, i) ==
    IF i > Len(r) THEN 0
    ELSE (IF {r[i], r[(i % Len(r)) + 1]} = ends THEN 1 ELSE 0)
             + ringUses(r, ends, i + 1)

RECURSIVE pathUses(_, _, _)
pathUses(rings, ends, i) ==
    IF i > Len(rings) THEN 0
    ELSE ringUses(rings[i], ends, 1) + pathUses(rings, ends, i + 1)

\* how often the rings of the result run along a segment with the ends ends
RECURSIVE Traversed(_, _, _)
Traversed(Rs, ends, i) ==
    IF i > Len(Rs) THEN 0
    ELSE pathUses(Rs[i], ends, 1) + Traversed(Rs, ends, i + 1)

\* how often the segments with the ends ends are still to be used
RECURSIVE StillSelected(_, _, _)
StillSelected(st, ends, e) ==
    IF e > Len(st.pts) THEN 0
    ELSE (IF st.pts[e].left /\ EndsOf(st, e) = ends THEN st.pts[e].inResult
          ELSE 0) + StillSelected(st, ends, e + 1)

\* what the rings have used and what is left to use of every segment
UsesOf(st) ==
    [e \in 1..Len(st.pts) |->
        Traversed(st.Rs, EndsOf(st, e), 1) + StillSelected(st, EndsOf(st, e), 1)]

\* C34: the result uses every selected segment exactly as often as it was
\* selected: each ring that is built takes from inResult what it runs along,
\* inResult of a left endpoint is never decremented at 0, and when the call
\* is over inResult of every left endpoint is 0
C34_UsedAsSelected ==
    [][sw.pc = "build"
           => /\ UsesOf(sw') = UsesOf(sw)
              /\ \A e \in 1..Len(sw.pts) :
                     sw.pts[e].left => sw'.pts[e].inResult <= sw.pts[e].inResult
              /\ sw'.pc = "done"
                     => \A e \in 1..Len(sw.pts) :
                            sw.pts[e].left => sw'.pts[e].inResult = 0]_vars

\* C35: for closed input every walk along a ring comes back to the endpoint
\* it started from: at each vertex it finds a next event that is in the
\* result, so that the call never panics for want of a next node and the
\* walk does not go on for ever
C35_WalkReturns ==
    sw.panic \notin {"next node for result polygon is nil",
                     "the walk does not return"}


(***************************************************************************)
(* Claims about the nodes a tolerance square refers to.                    *)
(***************************************************************************)
\* the squares of the column whose Lower and Upper breakupCrossingSegments
\* takes as they are, having no reference node to find them from
KeepsRange(st) ==
    {j \in st.n..Len(st.squares) :
        st.squares[j].Node = 0 /\ st.squares[j].Lower # 0}

\* C36: the walks from square.Lower along Next up to square.Upper, in
\* breakupCrossingSegments and in the reordering, find Lower and Upper in the
\* status with Upper at or above Lower, also when the loop of the column was
\* entered again: no walk steps onto a nil node or onto a node that was
\* returned to the pool
C36_LowerToUpper ==
    /\ sw.panic \notin {"nil node between Lower and Upper",
                        "nil reference node"}
    /\ sw.pc = "column" /\ ~InColumn(sw)
           => \A j \in KeepsRange(sw) :
                  /\ Pos(sw.status, sw.squares[j].Lower) # 0
                  /\ Pos(sw.status, sw.squares[j].Lower)
                         <= Pos(sw.status, sw.squares[j].Upper)


(***************************************************************************)
(* Claims about two calls that share the pools.                            *)
(***************************************************************************)
\* the nodes the call is going to use: those of the status and, when pass 2
\* is about to run, the reference node of each square of the column and the
\* Lower it walks from (Upper is only compared with)
ReachedNodes(st) ==
    IF st.pc # "column" THEN {}
    ELSE ({st.status[k] : k \in 1..Len(st.status)}
          \cup (IF InColumn(st) THEN {}
                ELSE {st.squares[j].Node : j \in st.n..Len(st.squares)}
                     \cup {st.squares[j].Lower : j \in KeepsRange(st)})) \ {0}

\* the endpoints that the rings still to be built read below e
RECURSIVE prevChain(_, _)
prevChain(pts, prev) ==
    IF prev = 0 THEN {}
    ELSE {prev} \cup (IF pts[prev].index = 0
                      THEN prevChain(pts, pts[prev].prev) ELSE {})

\* the events of the squares that are still in use
EventsInUse(st) ==
    UNION {EventsOf(st, j) : j \in {k \in 1..Len(st.squares) :
                                        ~st.squares[k].pooled}}

\* the endpoints the call is going to use: those in the queue and in the
\* status, the events of the squares in use and their other endpoints, the
\* segment below a segment that is still to be merged, and the segments
\* below the segments that are still to start a ring
ReachedPoints(st) ==
    IF st.pc \notin {"column", "build"} THEN {}
    ELSE ({st.queue[k] : k \in 1..Len(st.queue)}
          \cup {st.nodePt[st.status[k]] : k \in 1..Len(st.status)}
          \cup EventsInUse(st)
          \cup {st.pts[e].other : e \in EventsInUse(st)}
          \cup {st.pts[e].prev :
                   e \in {d \in 1..Len(st.pts) :
                             /\ st.pts[d].left /\ st.pts[d].pooled = 0
                             /\ Pos(st.queue, st.pts[d].other) > 0}}
          \cup UNION {prevChain(st.pts, st.pts[e].prev) :
                         e \in {d \in EventsInUse(st) :
                                   /\ st.pts[d].left /\ st.pts[d].inResult > 0
                                   /\ st.op # opDIV}}) \ {0}

\* the squares the call is going to use: those not put back, and those
\* where a segment that is still in the result ends
ReachedSquares(st) ==
    IF st.pc \notin {"column", "build"} THEN {}
    ELSE {k \in 1..Len(st.squares) : ~st.squares[k].pooled}
         \cup (IF st.pc # "build" THEN {}
               ELSE {st.pts[st.pts[e].other].square :
                        e \in {d \in EventsInUse(st) :
                                  st.pts[d].left /\ st.pts[d].inResult > 0}})

SettleOf(ps, fillRule) == bentleyOttmann(ps, <<>>, opSettle, fillRule).Rs

\* what a call with an empty operand is to return
OfEmptyOperand(ps, qs, op, fillRule) ==
    IF op = opSettle THEN <<>>
    ELSE IF PathsEmpty(qs)
    THEN IF op = opAND THEN <<>> ELSE SettleOf(ps, fillRule)
    ELSE IF op \in {opOR, opXOR} THEN SettleOf(qs, fillRule) ELSE <<>>

\* C38: with q empty, And returns the empty result and Or, Xor, Not and Div
\* return the settled p; with p empty, Or and Xor return the settled q and
\* And, Not and Div the empty result; Settle of an empty path is empty
C38_EmptyOperands ==
    (/\ Completed
     /\ PathsEmpty(probe.ps) \/ (probe.op # opSettle /\ PathsEmpty(probe.qs)))
        => sw.Rs = OfEmptyOperand(probe.ps, probe.qs, probe.op, probe.fillRule)

\* p.Div(q) with q empty has returned the settled p, which is not empty
C38_Witness ==
    /\ Completed /\ probe.op = opDIV
    /\ PathsEmpty(probe.qs) /\ ~PathsEmpty(probe.ps)
    /\ Len(sw.Rs) > 0
    /\ sw.Rs = SettleOf(probe.ps, probe.fillRule)


(***************************************************************************)
(* Claims about the sub-paths apart from the other operand.                *)
(***************************************************************************)
\* the sub-paths of the subject whose bounding box touches that of no
\* sub-path of the clipping path
ApartSubjects ==
    {i \in 1..Len(SplitAll(probe.ps)) :
        ~pOverlaps(SplitAll(probe.ps), SplitAll(probe.qs))[i]}

\* the contours of Path.Settle applied to sub-path i of the subject
SettledSubject(i) ==
    Rings(SettleRun(SplitAll(probe.ps)[i], probe.fillRule).Rs)

\* C39: no subject area is lost by the bounding-box filter: for Or, Xor, Not
\* and Div a sub-path of the subject whose bounding box touches that of no
\* sub-path of the clipping path is part of the result, settled; for And it
\* contributes nothing
C39_ApartSubjectKept ==
    (/\ Completed /\ probe.op # opSettle
     /\ ~PathsEmpty(probe.ps) /\ ~PathsEmpty(probe.qs))
        => \A i \in ApartSubjects :
               IF probe.op = opAND
               THEN SettledSubject(i) \cap Rings(sw.Rs) = {}
               ELSE SettledSubject(i) \subseteq Rings(sw.Rs)


(***************************************************************************)
(* Claims about the ends of open paths.                                    *)
(***************************************************************************)
\* the endpoints the call has added
AddedPoints == (probe.taken + 1)..Len(sw.pts)

\* the path of the call is open: it does not end in a Close command and
\* its first and last points differ
PathIsOpen ==
    /\ ~Closed(probe.p)
    /\ Pt(probe.p[1].X, probe.p[1].Y)
           # Pt(probe.p[Len(probe.p)].X, probe.p[Len(probe.p)].Y)

\* C40: for an open path with at least one segment of non-zero length
\* AddPathEndpoints sets end on exactly two endpoints, the start of the
\* first segment it emits and the end of the last, also when zero-length
\* segments at the beginning or the end of the path are skipped; for a
\* closed path, or one whose first and last points coincide, no endpoint
\* has end or open set
C40_TwoEnds ==
    (sw.pc = "added" /\ sw.panic = "")
        => IF PathIsOpen
           THEN AddedPoints # {}
                    => {i \in AddedPoints : sw.pts[i].end}
                           = {probe.taken + 1, Len(sw.pts)}
           ELSE \A i \in AddedPoints : ~sw.pts[i].end /\ ~sw.pts[i].open

====
